---- MODULE Spec2Model ----
(***************************************************************************)
(* TransitiveDependencyResolver (src/unnamed/part_001) as a state machine. *)
(*                                                                         *)
(* A version number is a string, read character by character as the       *)
(* comparator reads it.  A dependency without a versionNumber (undefined)  *)
(* is written with the empty string: every use of the field in the code is *)
(* a falsy test, `|| ''`, `|| 'unknown'` or a strict equality, and no      *)
(* input of the model carries an explicit empty version.                   *)
(***************************************************************************)
EXTENDS Integers, Sequences, FiniteSets, TLC

NoVersion == ""

(***************************************************************************)
(* Strings and numbers of the host language.                               *)
(***************************************************************************)
CharAt(s, i) == SubSeq(s, i, i)

Digits == {"0", "1", "2", "3", "4", "5", "6", "7", "8", "9"}

DigitVal(c) ==
    CASE c = "0" -> 0 [] c = "1" -> 1 [] c = "2" -> 2 [] c = "3" -> 3
      [] c = "4" -> 4 [] c = "5" -> 5 [] c = "6" -> 6 [] c = "7" -> 7
      [] c = "8" -> 8 [] c = "9" -> 9

\* A JavaScript number: an integer, or NaN.
Num(n) == [nan |-> FALSE, n |-> n]
NaN == [nan |-> TRUE, n |-> 0]

\* a - b on numbers
Minus(a, b) == IF a.nan \/ b.nan THEN NaN ELSE Num(a.n - b.n)

\* r > 0 and r < 0 on numbers (both false for NaN)
Gt0(r) == ~r.nan /\ r.n > 0
Lt0(r) == ~r.nan /\ r.n < 0

\* String.prototype.endsWith
endsWith(s, suffix) ==
    /\ Len(s) >= Len(suffix)
    /\ SubSeq(s, Len(s) - Len(suffix) + 1, Len(s)) = suffix

\* String.prototype.split('.')
RECURSIVE splitFrom(_, _, _)
splitFrom(s, i, cur) ==
    IF i > Len(s) THEN <<cur>>
    ELSE IF CharAt(s, i) = "." THEN <<cur>> \o splitFrom(s, i + 1, "")
    ELSE splitFrom(s, i + 1, cur \o CharAt(s, i))

split(s) == splitFrom(s, 1, "")

\* Array.prototype.join('.')
RECURSIVE join(_)
join(parts) ==
    IF Len(parts) = 0 THEN ""
    ELSE IF Len(parts) = 1 THEN parts[1]
    ELSE parts[1] \o "." \o join(Tail(parts))

\* Array.prototype.slice(0, 3)
slice3(parts) == SubSeq(parts, 1, IF Len(parts) < 3 THEN Len(parts) ELSE 3)

\* The end of the run of digits of s that starts at i (i - 1 when s has no
\* digit at i).
RECURSIVE digitsEnd(_, _)
digitsEnd(s, i) ==
    IF i <= Len(s) /\ CharAt(s, i) \in Digits THEN digitsEnd(s, i + 1) ELSE i - 1

\* The value of the digits s[i..j].
RECURSIVE digitsValue(_, _, _, _)
digitsValue(s, i, j, acc) ==
    IF i > j THEN acc ELSE digitsValue(s, i + 1, j, 10 * acc + DigitVal(CharAt(s, i)))

\* parseInt(s) for a string without sign or leading blanks: the leading
\* digits, NaN when there are none.
parseInt(s) ==
    LET e == digitsEnd(s, 1)
    IN IF e = 0 THEN NaN ELSE Num(digitsValue(s, 1, e, 0))

\* The first index >= i of s that holds a digit, 0 when there is none.
RECURSIVE firstDigit(_, _)
firstDigit(s, i) ==
    IF i > Len(s) THEN 0
    ELSE IF CharAt(s, i) \in Digits THEN i
    ELSE firstDigit(s, i + 1)

\* semver.coerce(s) || '0.0.0': the first run of digits is the major
\* number, and the minor and the patch number follow it when each is a dot
\* and a run of digits; <<0, 0, 0>> when s holds no digit.
coerce(s) ==
    LET i1 == firstDigit(s, 1)
        e1 == digitsEnd(s, i1)
        hasMinor == /\ e1 + 2 <= Len(s)
                    /\ CharAt(s, e1 + 1) = "."
                    /\ CharAt(s, e1 + 2) \in Digits
        e2 == IF hasMinor THEN digitsEnd(s, e1 + 2) ELSE e1
        hasPatch == /\ hasMinor
                    /\ e2 + 2 <= Len(s)
                    /\ CharAt(s, e2 + 1) = "."
                    /\ CharAt(s, e2 + 2) \in Digits
        e3 == IF hasPatch THEN digitsEnd(s, e2 + 2) ELSE e2
    IN IF i1 = 0 THEN <<0, 0, 0>>
       ELSE << digitsValue(s, i1, e1, 0),
               IF hasMinor THEN digitsValue(s, e1 + 2, e2, 0) ELSE 0,
               IF hasPatch THEN digitsValue(s, e2 + 2, e3, 0) ELSE 0 >>

\* semver.compare on two coerced versions
semverCompare(a, b) ==
    IF a[1] # b[1] THEN (IF a[1] < b[1] THEN -1 ELSE 1)
    ELSE IF a[2] # b[2] THEN (IF a[2] < b[2] THEN -1 ELSE 1)
    ELSE IF a[3] # b[3] THEN (IF a[3] < b[3] THEN -1 ELSE 1)
    ELSE 0

\* version.replace(/\.(LATEST|NEXT)$/, '')
stripMarker(version) ==
    IF endsWith(version, ".LATEST") THEN SubSeq(version, 1, Len(version) - 7)
    ELSE IF endsWith(version, ".NEXT") THEN SubSeq(version, 1, Len(version) - 5)
    ELSE version

\* The build number is left out of the comparison.
buildNumberNone(parts) == Num(0)

\* parseInt(parts[3] || '0'), the fourth part of a split version
buildNumber(parts) ==
    IF Len(parts) >= 4 /\ parts[4] # "" THEN parseInt(parts[4]) ELSE Num(0)

\* compareVersions without its lines 75 and 76: a missing version compares
\* equal to any version.
compareVersionsNoAbsent(version1, version2) ==
    IF version1 = "" \/ version2 = "" THEN Num(0)
    ELSE
      LET v1Parts == split(stripMarker(version1))
          v2Parts == split(stripMarker(version2))
          v1Floating == endsWith(version1, ".LATEST") \/ endsWith(version1, ".NEXT")
          v2Floating == endsWith(version2, ".LATEST") \/ endsWith(version2, ".NEXT")
          cmp == semverCompare(coerce(join(slice3(v1Parts))),
                               coerce(join(slice3(v2Parts))))
      IN IF v1Floating /\ ~v2Floating THEN Num(1)
         ELSE IF v2Floating /\ ~v1Floating THEN Num(-1)
         ELSE IF cmp # 0 THEN Num(cmp)
         ELSE Minus(buildNumber(v1Parts), buildNumber(v2Parts))

compareVersions(version1, version2) ==
    IF version1 = "" /\ version2 = "" THEN Num(0)
    ELSE IF version1 = "" THEN Num(-1)
    ELSE IF version2 = "" THEN Num(1)
    ELSE
      LET v1HasLatest == endsWith(version1, ".LATEST")
          v2HasLatest == endsWith(version2, ".LATEST")
          v1HasNext == endsWith(version1, ".NEXT")
          v2HasNext == endsWith(version2, ".NEXT")
          v1Parts == split(stripMarker(version1))
          v2Parts == split(stripMarker(version2))
          cmp == semverCompare(coerce(join(slice3(v1Parts))),
                               coerce(join(slice3(v2Parts))))
      IN IF (v1HasLatest \/ v1HasNext) /\ ~v2HasLatest /\ ~v2HasNext THEN Num(1)
         ELSE IF (v2HasLatest \/ v2HasNext) /\ ~v1HasLatest /\ ~v1HasNext THEN Num(-1)
         ELSE IF cmp # 0 THEN Num(cmp)
         ELSE Minus(buildNumber(v1Parts), buildNumber(v2Parts))

(***************************************************************************)
(* Data of the resolver.                                                   *)
(*                                                                         *)
(* A dependency is [package, versionNumber].  A Map keeps its keys in      *)
(* insertion order: [keys |-> sequence of keys, val |-> key -> value].     *)
(***************************************************************************)
Dep(p, v) == [package |-> p, versionNumber |-> v]

EmptyMap == [keys |-> <<>>, val |-> <<>>]

MapHas(m, k) == k \in DOMAIN m.val

\* m.get(k) || []
MapGet(m, k) == IF MapHas(m, k) THEN m.val[k] ELSE <<>>

\* m.set(k, v): a key already present keeps its position
MapSet(m, k, v) ==
    IF MapHas(m, k) THEN [m EXCEPT !.val[k] = v]
    ELSE [keys |-> Append(m.keys, k), val |-> m.val @@ (k :> v)]

\* delete m[k]
MapDelete(m, k) ==
    [keys |-> SelectSeq(m.keys, LAMBDA q : q # k),
     val |-> [q \in (DOMAIN m.val) \ {k} |-> m.val[q]]]

InSeq(x, s) == \E i \in 1..Len(s) : s[i] = x

\* s.indexOf(x), counted from 0; -1 when x is absent
RECURSIVE indexFrom(_, _, _)
indexFrom(s, x, i) ==
    IF i > Len(s) THEN -1 ELSE IF s[i] = x THEN i - 1 ELSE indexFrom(s, x, i + 1)

indexOf(s, x) == indexFrom(s, x, 1)

\* A lookup that never finds the package.
depIndexNone(deps, p) == 0

\* allDependencies.get(p), uniqueDependencies.get(p): the position (from 1) of
\* the dependency on package p among the values of the Map, 0 if none.
RECURSIVE depIndexFrom(_, _, _)
depIndexFrom(deps, p, i) ==
    IF i > Len(deps) THEN 0
    ELSE IF deps[i].package = p THEN i
    ELSE depIndexFrom(deps, p, i + 1)

depIndex(deps, p) == depIndexFrom(deps, p, 1)

(***************************************************************************)
(* versionContributors, a Map<package, Map<version, Set<contributor>>>, is *)
(* the sequence of its <<package, version, contributor>> triples in the    *)
(* order they were added; a Set iterates in insertion order.               *)
(***************************************************************************)
\* Only the first contributor of a (package, version) pair is kept.
addContributorSingle(vc, p, v, c) ==
    IF \E i \in 1..Len(vc) : vc[i][1] = p /\ vc[i][2] = v THEN vc
    ELSE Append(vc, <<p, v, c>>)

addContributor(vc, p, v, c) ==
    IF InSeq(<<p, v, c>>, vc) THEN vc ELSE Append(vc, <<p, v, c>>)

RECURSIVE contributorsFrom(_, _, _, _)
contributorsFrom(vc, p, v, i) ==
    IF i > Len(vc) THEN <<>>
    ELSE IF vc[i][1] = p /\ vc[i][2] = v
         THEN <<vc[i][3]>> \o contributorsFrom(vc, p, v, i + 1)
         ELSE contributorsFrom(vc, p, v, i + 1)

\* The contributors of every version of p.
RECURSIVE contributorsAnyVersionFrom(_, _, _)
contributorsAnyVersionFrom(vc, p, i) ==
    IF i > Len(vc) THEN <<>>
    ELSE IF vc[i][1] = p
         THEN <<vc[i][3]>> \o contributorsAnyVersionFrom(vc, p, i + 1)
         ELSE contributorsAnyVersionFrom(vc, p, i + 1)

contributorsAnyVersion(vc, p, v) == contributorsAnyVersionFrom(vc, p, 1)

\* Array.from(versionContributors.get(p)?.get(v) || new Set())
contributorsOf(vc, p, v) == contributorsFrom(vc, p, v, 1)

(***************************************************************************)
(* fillDepsTransitively.resolveDependencies                                *)
(***************************************************************************)
\* Array.from(chain).join(' -> ')
RECURSIVE joinArrow(_)
joinArrow(chain) ==
    IF Len(chain) = 0 THEN ""
    ELSE IF Len(chain) = 1 THEN chain[1]
    ELSE chain[1] \o " -> " \o joinArrow(Tail(chain))

\* The message without the repeated package.
errorMessageChainOnly(chain, pkg) ==
    "Circular dependency detected: " \o joinArrow(chain)
      \o ". Salesforce does not support circular dependencies between packages."

errorMessage(chain, pkg) ==
    "Circular dependency detected: " \o joinArrow(chain) \o " -> " \o pkg
      \o ". Salesforce does not support circular dependencies between packages."

\* The dependency is recorded and no contributor is tracked.
recordDependencyUntracked(acc, dep, by) ==
    LET i == depIndex(acc.all, dep.package)
    IN IF i = 0 THEN [acc EXCEPT !.all = Append(@, dep)]
       ELSE IF Gt0(compareVersions(dep.versionNumber, acc.all[i].versionNumber))
       THEN [acc EXCEPT !.all[i] = dep]
       ELSE acc

\* The body of both forEach loops: record dep in allDependencies when its
\* package is new or its version compares higher, and then track `by` as a
\* contributor of (dep.package, dep.versionNumber).
\* acc is [all |-> allDependencies.values(), vc |-> versionContributors].
recordDependency(acc, dep, by) ==
    LET i == depIndex(acc.all, dep.package)
    IN IF i = 0
       THEN [all |-> Append(acc.all, dep),
             vc |-> addContributor(acc.vc, dep.package, dep.versionNumber, by)]
       ELSE IF Gt0(compareVersions(dep.versionNumber, acc.all[i].versionNumber))
       THEN [all |-> [acc.all EXCEPT ![i] = dep],
             vc |-> addContributor(acc.vc, dep.package, dep.versionNumber, by)]
       ELSE acc

\* The direct dependencies are recorded and the package is not tracked as
\* their contributor.
RECURSIVE addDirectUntracked(_, _, _, _)
addDirectUntracked(dependencies, i, acc, pkg) ==
    IF i > Len(dependencies) THEN acc
    ELSE addDirectUntracked(dependencies, i + 1,
                            recordDependencyUntracked(acc, dependencies[i], pkg), pkg)

\* // Add direct dependencies
RECURSIVE addDirect(_, _, _, _)
addDirect(dependencies, i, acc, pkg) ==
    IF i > Len(dependencies) THEN acc
    ELSE addDirect(dependencies, i + 1, recordDependency(acc, dependencies[i], pkg), pkg)

\* The dependencies of dep.package are not added.
addTransitiveOfNone(transitiveDeps, i, acc, depPackage) == acc

\* transitiveDeps.forEach(td => ...), for the dependencies of dep.package
RECURSIVE addTransitiveOf(_, _, _, _)
addTransitiveOf(transitiveDeps, i, acc, depPackage) ==
    IF i > Len(transitiveDeps) THEN acc
    ELSE addTransitiveOf(transitiveDeps, i + 1,
                         recordDependency(acc, transitiveDeps[i], depPackage), depPackage)

Max(m, n) == IF m < n THEN n ELSE m

\* The result of a call: threw with its message, or the returned list and
\* the versionContributors it leaves.  depth is the deepest nesting of calls
\* the call reached, the call the loop makes being at depth 0: the number of
\* packages on the chain a call is entered with.
Threw(msg, chain, pkg) ==
    [threw |-> TRUE, message |-> msg, chain |-> chain, repeated |-> pkg,
     deps |-> <<>>, vc |-> <<>>, depth |-> Len(chain)]

Returned(deps, vc, depth) ==
    [threw |-> FALSE, message |-> "", chain |-> <<>>, repeated |-> "",
     deps |-> deps, vc |-> vc, depth |-> depth]

RECURSIVE resolveDependencies(_, _, _, _)
RECURSIVE addTransitive(_, _, _, _, _)

\* The chain is shared, not copied, and a visited dependency stays in it.
RECURSIVE addTransitiveSharedChain(_, _, _, _, _)
addTransitiveSharedChain(dependencies, i, acc, chain, dependencyMap) ==
    IF i > Len(dependencies) THEN Returned(acc.all, acc.vc, acc.depth)
    ELSE IF ~MapHas(dependencyMap, dependencies[i].package)
    THEN addTransitiveSharedChain(dependencies, i + 1, acc, chain, dependencyMap)
    ELSE LET r == resolveDependencies(dependencies[i].package, chain,
                                      dependencyMap, acc.vc)
             merged == addTransitiveOf(r.deps, 1, [all |-> acc.all, vc |-> r.vc],
                                       dependencies[i].package)
         IN IF r.threw THEN [r EXCEPT !.depth = Max(acc.depth, r.depth)]
            ELSE addTransitiveSharedChain(dependencies, i + 1,
                     [all |-> merged.all, vc |-> merged.vc,
                      depth |-> Max(acc.depth, r.depth)],
                     Append(chain, dependencies[i].package), dependencyMap)

\* // Add transitive dependencies
addTransitive(dependencies, i, acc, chain, dependencyMap) ==
    IF i > Len(dependencies) THEN Returned(acc.all, acc.vc, acc.depth)
    ELSE IF ~MapHas(dependencyMap, dependencies[i].package)
    THEN addTransitive(dependencies, i + 1, acc, chain, dependencyMap)
    ELSE LET r == resolveDependencies(dependencies[i].package, chain,
                                      dependencyMap, acc.vc)
             merged == addTransitiveOf(r.deps, 1, [all |-> acc.all, vc |-> r.vc],
                                       dependencies[i].package)
         IN IF r.threw THEN [r EXCEPT !.depth = Max(acc.depth, r.depth)]
            ELSE addTransitive(dependencies, i + 1,
                     [all |-> merged.all, vc |-> merged.vc,
                      depth |-> Max(acc.depth, r.depth)],
                     chain, dependencyMap)

\* The cycle test against every package expanded so far, not against the
\* active path: a package that contributed a dependency was expanded.
resolveDependenciesVisited(pkg, chain, dependencyMap, vc) ==
    IF InSeq(pkg, chain) \/ (\E i \in 1..Len(vc) : vc[i][3] = pkg)
    THEN Threw(errorMessage(chain, pkg), chain, pkg)
    ELSE LET dependencies == MapGet(dependencyMap, pkg)
             direct == addDirect(dependencies, 1, [all |-> <<>>, vc |-> vc], pkg)
         IN addTransitive(dependencies, 1,
                [all |-> direct.all, vc |-> direct.vc, depth |-> Len(chain)],
                Append(chain, pkg), dependencyMap)

\* The chain kept as an array, and the cycle seen only when the package is
\* on it twice already.
resolveDependenciesLate(pkg, chain, dependencyMap, vc) ==
    IF Cardinality({i \in 1..Len(chain) : chain[i] = pkg}) >= 2
    THEN Threw(errorMessage(chain, pkg), chain, pkg)
    ELSE LET dependencies == MapGet(dependencyMap, pkg)
             direct == addDirect(dependencies, 1, [all |-> <<>>, vc |-> vc], pkg)
         IN addTransitive(dependencies, 1,
                [all |-> direct.all, vc |-> direct.vc, depth |-> Len(chain)],
                Append(chain, pkg), dependencyMap)

\* chain is the Set of the packages on the active path, in insertion order;
\* a recursive call gets a copy of it.
resolveDependencies(pkg, chain, dependencyMap, vc) ==
    IF InSeq(pkg, chain) THEN Threw(errorMessage(chain, pkg), chain, pkg)
    ELSE LET dependencies == MapGet(dependencyMap, pkg)
             direct == addDirect(dependencies, 1, [all |-> <<>>, vc |-> vc], pkg)
         IN addTransitive(dependencies, 1,
                [all |-> direct.all, vc |-> direct.vc, depth |-> Len(chain)],
                Append(chain, pkg), dependencyMap)

\* for (let pkg of dependencyMap.keys()) { ... }: the iterations from the
\* i-th key on.  st is [threw, message, chain, repeated, map, vc].
RECURSIVE fillFrom(_, _)
fillFrom(st, i) ==
    IF st.threw \/ i > Len(st.map.keys) THEN st
    ELSE LET pkg == st.map.keys[i]
             r == resolveDependencies(pkg, <<>>, st.map, st.vc)
         IN IF r.threw
            THEN [st EXCEPT !.threw = TRUE, !.message = r.message,
                            !.chain = r.chain, !.repeated = r.repeated]
            ELSE fillFrom([st EXCEPT !.map = MapSet(st.map, pkg, r.deps),
                                     !.vc = r.vc], i + 1)

fillDepsTransitively(pkgWithDependencies, versionContributors) ==
    fillFrom([threw |-> FALSE, message |-> "", chain |-> <<>>, repeated |-> "",
              map |-> pkgWithDependencies, vc |-> versionContributors], 1)

(***************************************************************************)
(* topologicalSort                                                         *)
(***************************************************************************)
RECURSIVE visit(_, _, _)
RECURSIVE visitEach(_, _, _, _)

visitEach(dependencies, i, st, m) ==
    IF i > Len(dependencies) THEN st
    ELSE visitEach(dependencies, i + 1, visit(dependencies[i].package, st, m), m)

\* The package is pushed before its dependencies are visited.
visitPreOrder(pkg, st, m) ==
    IF pkg \in st.visited THEN st
    ELSE visitEach(MapGet(m, pkg), 1,
                   [visited |-> st.visited \cup {pkg}, result |-> Append(st.result, pkg)],
                   m)

visit(pkg, st, m) ==
    IF pkg \in st.visited THEN st
    ELSE LET after == visitEach(MapGet(m, pkg), 1,
                                [st EXCEPT !.visited = @ \cup {pkg}], m)
         IN [after EXCEPT !.result = Append(@, pkg)]

RECURSIVE visitKeys(_, _, _)
visitKeys(m, i, st) ==
    IF i > Len(m.keys) THEN st ELSE visitKeys(m, i + 1, visit(m.keys[i], st, m))

topologicalSort(pkgWithDependencies) ==
    visitKeys(pkgWithDependencies, 1, [visited |-> {}, result |-> <<>>]).result

(***************************************************************************)
(* resolveTransitiveDependenciesWithDetails: the result assembly           *)
(***************************************************************************)
\* dependencies.forEach(dep => ...) into uniqueDependencies
RECURSIVE uniqueFrom(_, _, _)
uniqueFrom(dependencies, i, unique) ==
    IF i > Len(dependencies) THEN unique
    ELSE LET dep == dependencies[i]
             j == depIndex(unique, dep.package)
         IN uniqueFrom(dependencies, i + 1,
              IF j = 0 THEN Append(unique, dep)
              ELSE IF Gt0(compareVersions(dep.versionNumber, unique[j].versionNumber))
                   THEN [unique EXCEPT ![j] = dep]
                   ELSE unique)

uniqueDependencies(dependencies) == uniqueFrom(dependencies, 1, <<>>)

\* Array.prototype.sort with the comparator
\* (a, b) => sortedPackages.indexOf(a.package) - sortedPackages.indexOf(b.package):
\* a stable sort, here by insertion.
RECURSIVE insertSorted(_, _, _, _)
insertSorted(sorted, dep, i, sortedPackages) ==
    IF i > Len(sorted) THEN Append(sorted, dep)
    ELSE IF indexOf(sortedPackages, dep.package)
              - indexOf(sortedPackages, sorted[i].package) < 0
         THEN SubSeq(sorted, 1, i - 1) \o <<dep>> \o SubSeq(sorted, i, Len(sorted))
         ELSE insertSorted(sorted, dep, i + 1, sortedPackages)

RECURSIVE sortFrom(_, _, _, _)
sortFrom(deps, i, sorted, sortedPackages) ==
    IF i > Len(deps) THEN sorted
    ELSE sortFrom(deps, i + 1, insertSorted(sorted, deps[i], 1, sortedPackages),
                  sortedPackages)

\* The list left in the order of the expansion.
sortDependenciesNone(deps, sortedPackages) == deps

sortDependencies(deps, sortedPackages) == sortFrom(deps, 1, <<>>, sortedPackages)

\* sortedPackages.forEach(pkg => ...) filling sortedPkgWithDependencies
RECURSIVE assembleFrom(_, _, _, _)
assembleFrom(sortedPackages, i, pkgWithDependencies, out) ==
    IF i > Len(sortedPackages) THEN out
    ELSE assembleFrom(sortedPackages, i + 1, pkgWithDependencies,
           MapSet(out, sortedPackages[i],
                  sortDependencies(
                      uniqueDependencies(MapGet(pkgWithDependencies, sortedPackages[i])),
                      sortedPackages)))

assemble(sortedPackages, pkgWithDependencies) ==
    assembleFrom(sortedPackages, 1, pkgWithDependencies, EmptyMap)

(***************************************************************************)
(* generateDependencyDetails                                               *)
(***************************************************************************)
\* isDirect without the comparison of the versions.
isDirectAnyVersion(originalDeps, pkg, dep) ==
    /\ MapHas(originalDeps, pkg)
    /\ \E i \in 1..Len(originalDeps.val[pkg]) :
          originalDeps.val[pkg][i].package = dep.package

\* originalDeps.get(pkg)?.some(d => d.package === dep.package
\*                               && d.versionNumber === dep.versionNumber) || false
isDirect(originalDeps, pkg, dep) ==
    /\ MapHas(originalDeps, pkg)
    /\ \E i \in 1..Len(originalDeps.val[pkg]) :
          /\ originalDeps.val[pkg][i].package = dep.package
          /\ originalDeps.val[pkg][i].versionNumber = dep.versionNumber

\* The version as it is on the edge.
versionAsIs(v) == v

\* dep.versionNumber || 'unknown'
versionOrUnknown(v) == IF v = "" THEN "unknown" ELSE v

\* dependencies.forEach(dep => ...) filling pkgDetails
RECURSIVE pkgDetailsFrom(_, _, _, _, _, _)
pkgDetailsFrom(dependencies, i, pkg, originalDeps, versionContributors, pkgDetails) ==
    IF i > Len(dependencies) THEN pkgDetails
    ELSE LET dep == dependencies[i]
         IN pkgDetailsFrom(dependencies, i + 1, pkg, originalDeps, versionContributors,
              MapSet(pkgDetails, dep.package,
                     [version |-> versionOrUnknown(dep.versionNumber),
                      isDirect |-> isDirect(originalDeps, pkg, dep),
                      contributors |-> contributorsOf(versionContributors,
                                                      dep.package, dep.versionNumber)]))

RECURSIVE detailsFrom(_, _, _, _, _, _)
detailsFrom(sortedPackages, i, resolvedDeps, originalDeps, versionContributors, details) ==
    IF i > Len(sortedPackages) THEN details
    ELSE LET pkg == sortedPackages[i]
             dependencies == MapGet(resolvedDeps, pkg)
         IN detailsFrom(sortedPackages, i + 1, resolvedDeps, originalDeps,
                        versionContributors,
              IF Len(dependencies) > 0
              THEN MapSet(details, pkg,
                          pkgDetailsFrom(dependencies, 1, pkg, originalDeps,
                                         versionContributors, EmptyMap))
              ELSE details)

generateDependencyDetails(sortedPackages, resolvedDeps, originalDeps, versionContributors) ==
    detailsFrom(sortedPackages, 1, resolvedDeps, originalDeps, versionContributors,
                EmptyMap)

(***************************************************************************)
(* The project configuration and the first steps of the call               *)
(*                                                                         *)
(* A configuration is [packageDirectories, externalDependencyMap]: the     *)
(* package directories in the order of sfdx-project.json, each with its    *)
(* package, versionNumber and dependencies, and                            *)
(* plugins.sfp.externalDependencyMap.  Configurations are objects: `objects`*)
(* holds them by reference, and the caller's is at CallerRef.              *)
(***************************************************************************)
CallerRef == 1

\* No copy: the call works on the caller's object.
cloneNone(objs, ref) == [objects |-> objs, ref |-> ref]

\* _.cloneDeep(this.sfdxProjectConfig): a new object with the same content
cloneDeep(objs, ref) == [objects |-> Append(objs, objs[ref]), ref |-> Len(objs) + 1]

\* UserDefinedExternalDependencyMap.cleanupEntries: deletes, in the object it
\* is given, the entries of the external dependency map that list no
\* dependency, and returns that object.
RECURSIVE cleanupFrom(_, _, _)
cleanupFrom(ext, keys, i) ==
    IF i > Len(keys) THEN ext
    ELSE cleanupFrom(IF Len(ext.val[keys[i]]) = 0 THEN MapDelete(ext, keys[i]) ELSE ext,
                     keys, i + 1)

cleanupEntries(objs, ref) ==
    [objs EXCEPT ![ref].externalDependencyMap = cleanupFrom(@, @.keys, 1)]

\* UserDefinedExternalDependencyMap.fetchDependencyEntries
fetchDependencyEntries(projectConfig) == projectConfig.externalDependencyMap

\* ProjectConfig.getAllPackagesAndItsDependencies: the graph, one key per
\* package directory in their order
RECURSIVE allPackagesFrom(_, _, _)
allPackagesFrom(dirs, i, m) ==
    IF i > Len(dirs) THEN m
    ELSE allPackagesFrom(dirs, i + 1, MapSet(m, dirs[i].package, dirs[i].dependencies))

getAllPackagesAndItsDependencies(projectConfig) ==
    allPackagesFrom(projectConfig.packageDirectories, 1, EmptyMap)

\* for (let pkg of Object.keys(externalDependencyMap)) pkgWithDependencies.set(...)
RECURSIVE overlayFrom(_, _, _)
overlayFrom(pkgWithDependencies, externalDependencyMap, i) ==
    IF i > Len(externalDependencyMap.keys) THEN pkgWithDependencies
    ELSE overlayFrom(MapSet(pkgWithDependencies, externalDependencyMap.keys[i],
                            externalDependencyMap.val[externalDependencyMap.keys[i]]),
                     externalDependencyMap, i + 1)

\* The external list is added to the list the package has.
RECURSIVE mergeFrom(_, _, _)
mergeFrom(pkgWithDependencies, externalDependencyMap, i) ==
    IF i > Len(externalDependencyMap.keys) THEN pkgWithDependencies
    ELSE mergeFrom(MapSet(pkgWithDependencies, externalDependencyMap.keys[i],
                          MapGet(pkgWithDependencies, externalDependencyMap.keys[i])
                            \o externalDependencyMap.val[externalDependencyMap.keys[i]]),
                   externalDependencyMap, i + 1)

fillDepsMerging(pkgWithDependencies, externalDependencyMap) ==
    mergeFrom(pkgWithDependencies, externalDependencyMap, 1)

fillDepsWithUserDefinedExternalDependencyMap(pkgWithDependencies, externalDependencyMap) ==
    overlayFrom(pkgWithDependencies, externalDependencyMap, 1)

\* The graph the resolution works on: lines 32 to 36.
graphOf(projectConfig) ==
    fillDepsWithUserDefinedExternalDependencyMap(
        getAllPackagesAndItsDependencies(projectConfig),
        fetchDependencyEntries(projectConfig))

(***************************************************************************)
(* The inputs of the model: bounded project configurations, in four        *)
(* families.                                                               *)
(*   structure: three packages, any dependency lists with at most MaxEdges *)
(*     declarations in all, one version;                                   *)
(*   version: two packages, at most MaxVersionEdges declarations, the      *)
(*     version of a declaration drawn from PackageVersions when its target *)
(*     is a package and from AbsentVersions when it is the absent package; *)
(*   external: the structure family with at most MaxExternalEdges          *)
(*     declarations and an external dependency map;                        *)
(*   shared: four packages, at most MaxSharedEdges declarations in all,    *)
(*     one version, no package declaring itself or a target twice, each    *)
(*     list in the order of SharedTargets.                                 *)
(* The package directories are a, b, c in this order: a project with       *)
(* another order is one of these with its packages renamed.                *)
(***************************************************************************)
MaxEdges == 4
MaxVersionEdges == 3
MaxExternalEdges == 2
MaxSharedEdges == 5

\* "x" is a name no package directory carries: a dependency on it is a
\* dependency on a package absent from the project.
StructurePackages == <<"a", "b", "c">>
VersionPackages == <<"a", "b">>
AbsentPackage == "x"

PackageVersions == {NoVersion, "1.0.0.LATEST"}
AbsentVersions ==
    {NoVersion, "1.0.0.LATEST", "1.0.0.NEXT", "1.1.0.LATEST", "1.0.0.3", "1.0.0.x"}

\* The version of the package directories themselves.
OwnVersion == "2.0.0.NEXT"

StructureEdges ==
    {Dep(p, "1.0.0.LATEST") : p \in {"a", "b", "c", AbsentPackage}}

VersionEdges ==
    {Dep(p, v) : p \in {"a", "b"}, v \in PackageVersions}
    \cup {Dep(AbsentPackage, v) : v \in AbsentVersions}

\* External dependency maps: no key, or one key (a package of the project or
\* the absent one) with at most one dependency.
ExternalMaps ==
    {EmptyMap}
    \cup { [keys |-> <<k>>, val |-> (k :> l)] :
             k \in {"c", AbsentPackage},
             l \in {<<>>} \cup { <<Dep(p, NoVersion)>> : p \in {"a", "y"} } }

SharedPackages == <<"a", "b", "c", "d">>
SharedTargets == <<"a", "b", "c", "d", AbsentPackage>>

\* The declarations <<source, target>> a project of the shared family may hold.
SharedPairs ==
    {<<SharedPackages[i], SharedTargets[j]>> :
        i \in 1..Len(SharedPackages), j \in 1..Len(SharedTargets)}
    \ {<<SharedPackages[i], SharedPackages[i]>> : i \in 1..Len(SharedPackages)}

\* The dependency list of package p when the declarations are `pairs`.
RECURSIVE sharedListFrom(_, _, _)
sharedListFrom(pairs, p, j) ==
    IF j > Len(SharedTargets) THEN <<>>
    ELSE (IF <<p, SharedTargets[j]>> \in pairs
          THEN <<Dep(SharedTargets[j], "1.0.0.LATEST")>> ELSE <<>>)
         \o sharedListFrom(pairs, p, j + 1)

Project(packages, lists, externalDependencyMap) ==
    [packageDirectories |->
        [i \in 1..Len(packages) |->
            [package |-> packages[i], versionNumber |-> OwnVersion,
             dependencies |-> lists[i]]],
     externalDependencyMap |-> externalDependencyMap]

(***************************************************************************)
(* The inputs of the comparator: a version is absent, or one to three      *)
(* numeric segments, a build number after the third (NoBuild: none) and a  *)
(* floating marker ("": none).  formatVersion writes it as the string the  *)
(* manifest carries.                                                       *)
(***************************************************************************)
NoBuild == -1

Absent == [absent |-> TRUE, segments |-> <<>>, build |-> NoBuild, marker |-> ""]

MajorValues == {0, 2, 10}
MinorValues == {0, 2}
BuildValues == {0, 3, 10}
Markers == {"", "NEXT", "LATEST"}

SegmentLists ==
    {<<m>> : m \in MajorValues}
    \cup {<<m, n>> : m \in MajorValues, n \in MinorValues}
    \cup {<<m, n, q>> : m \in MajorValues, n \in MinorValues, q \in MinorValues}

WellFormedVersions ==
    {[absent |-> FALSE, segments |-> l, build |-> NoBuild, marker |-> k] :
        l \in SegmentLists, k \in Markers}
    \cup {[absent |-> FALSE, segments |-> l, build |-> n, marker |-> k] :
            l \in {t \in SegmentLists : Len(t) = 3}, n \in BuildValues, k \in Markers}

VersionInputs == {Absent} \cup WellFormedVersions

DigitChar(d) ==
    CASE d = 0 -> "0" [] d = 1 -> "1" [] d = 2 -> "2" [] d = 3 -> "3"
      [] d = 4 -> "4" [] d = 5 -> "5" [] d = 6 -> "6" [] d = 7 -> "7"
      [] d = 8 -> "8" [] d = 9 -> "9"

\* The decimal numeral of n.
RECURSIVE Numeral(_)
Numeral(n) == IF n < 10 THEN DigitChar(n) ELSE Numeral(n \div 10) \o DigitChar(n % 10)

RECURSIVE numeralsFrom(_, _)
numeralsFrom(segments, i) ==
    IF i > Len(segments) THEN <<>>
    ELSE <<Numeral(segments[i])>> \o numeralsFrom(segments, i + 1)

formatVersion(v) ==
    IF v.absent THEN NoVersion
    ELSE join(numeralsFrom(v.segments, 1)
              \o (IF v.build = NoBuild THEN <<>> ELSE <<Numeral(v.build)>>)
              \o (IF v.marker = "" THEN <<>> ELSE <<v.marker>>))

(***************************************************************************)
(* The state machine: one call of resolveTransitiveDependenciesWithDetails *)
(***************************************************************************)
VARIABLES
    objects,                    \* the configuration objects, by reference
    clonedProjectConfig,        \* the reference the call works on (0: none yet)
    pkgWithDependencies,        \* the graph: before and after the expansion
    originalDeps,               \* the copy of the graph taken at line 40
    versionContributors,
    dependencyMap,              \* fillDepsTransitively's own Map
    next,                       \* the key of dependencyMap.keys() to expand next
    sortedPackages,
    sortedPkgWithDependencies,
    details,
    error,                      \* what the call threw: [message, chain, repeated]
    comparison,                 \* one call of compareVersions: arguments and result
    bump,                       \* one run of the version bump command
    pc

vars == << objects, clonedProjectConfig, pkgWithDependencies, originalDeps,
           versionContributors, dependencyMap, next, sortedPackages,
           sortedPkgWithDependencies, details, error, comparison, bump, pc >>

NoError == [message |-> "", chain |-> <<>>, repeated |-> ""]

\* No run of the version bump command.
NoBump == [flags |-> <<>>, projectData |-> <<>>, projectPackages |-> <<>>,
           updatedPackages |-> <<>>, updatedDependencies |-> <<>>,
           file |-> <<>>, saves |-> 0, writes |-> 0, exited |-> FALSE,
           call |-> <<>>, calls |-> 0]

NoComparison == [a |-> Absent, b |-> Absent, version1 |-> "", version2 |-> "",
                 result |-> Num(0)]

\* The state before the call, for the caller's configuration cfg.
Start(cfg) ==
    /\ objects = <<cfg>>
    /\ clonedProjectConfig = 0
    /\ pkgWithDependencies = EmptyMap
    /\ originalDeps = EmptyMap
    /\ versionContributors = <<>>
    /\ dependencyMap = EmptyMap
    /\ next = 0
    /\ sortedPackages = <<>>
    /\ sortedPkgWithDependencies = EmptyMap
    /\ details = EmptyMap
    /\ error = NoError
    /\ comparison = NoComparison
    /\ bump = NoBump
    /\ pc = "start"

InitStructure ==
    \E k1 \in 0..MaxEdges : \E k2 \in 0..(MaxEdges - k1) :
    \E k3 \in 0..(MaxEdges - k1 - k2) :
    \E l1 \in [1..k1 -> StructureEdges], l2 \in [1..k2 -> StructureEdges],
       l3 \in [1..k3 -> StructureEdges] :
        Start(Project(StructurePackages, <<l1, l2, l3>>, EmptyMap))

InitVersion ==
    \E k1 \in 0..MaxVersionEdges : \E k2 \in 0..(MaxVersionEdges - k1) :
    \E l1 \in [1..k1 -> VersionEdges], l2 \in [1..k2 -> VersionEdges] :
        Start(Project(VersionPackages, <<l1, l2>>, EmptyMap))

InitExternal ==
    \E k1 \in 0..MaxExternalEdges : \E k2 \in 0..(MaxExternalEdges - k1) :
    \E k3 \in 0..(MaxExternalEdges - k1 - k2) :
    \E l1 \in [1..k1 -> StructureEdges], l2 \in [1..k2 -> StructureEdges],
       l3 \in [1..k3 -> StructureEdges] :
    \E e \in ExternalMaps :
        Start(Project(StructurePackages, <<l1, l2, l3>>, e))

InitShared ==
    \E pairs \in {S \in SUBSET SharedPairs : Cardinality(S) <= MaxSharedEdges} :
        Start(Project(SharedPackages,
                      [i \in 1..Len(SharedPackages) |->
                          sharedListFrom(pairs, SharedPackages[i], 1)],
                      EmptyMap))

Init == InitStructure \/ InitVersion \/ InitExternal \/ InitShared

\* line 30
CloneConfig ==
    /\ pc = "start"
    /\ LET c == cloneDeep(objects, CallerRef)
       IN /\ objects' = c.objects
          /\ clonedProjectConfig' = c.ref
    /\ pc' = "cloned"
    /\ UNCHANGED << comparison, bump >>
    /\ UNCHANGED << pkgWithDependencies, originalDeps, versionContributors,
                    dependencyMap, next, sortedPackages,
                    sortedPkgWithDependencies, details, error >>

\* line 31
CleanupEntries ==
    /\ pc = "cloned"
    /\ objects' = cleanupEntries(objects, clonedProjectConfig)
    /\ pc' = "cleaned"
    /\ UNCHANGED << comparison, bump >>
    /\ UNCHANGED << clonedProjectConfig, pkgWithDependencies, originalDeps,
                    versionContributors, dependencyMap, next, sortedPackages,
                    sortedPkgWithDependencies, details, error >>

\* lines 32 to 41 and 191: the graph, its copy, and the start of the expansion
BuildGraph ==
    /\ pc = "cleaned"
    /\ LET graph == graphOf(objects[clonedProjectConfig])
       IN /\ pkgWithDependencies' = graph
          /\ originalDeps' = graph
          /\ dependencyMap' = graph
    /\ versionContributors' = <<>>
    /\ next' = 1
    /\ pc' = "filling"
    /\ UNCHANGED << comparison, bump >>
    /\ UNCHANGED << objects, clonedProjectConfig, sortedPackages,
                    sortedPkgWithDependencies, details, error >>

\* lines 261 to 264: one iteration of the loop over dependencyMap.keys(); a
\* circular dependency ends the call
ExpandPackage ==
    /\ pc = "filling"
    /\ next <= Len(dependencyMap.keys)
    /\ LET pkg == dependencyMap.keys[next]
           r == resolveDependencies(pkg, <<>>, dependencyMap, versionContributors)
       IN IF r.threw
          THEN /\ error' = [message |-> r.message, chain |-> r.chain,
                            repeated |-> r.repeated]
               /\ pc' = "rejected"
               /\ UNCHANGED << dependencyMap, versionContributors, next >>
          ELSE /\ dependencyMap' = MapSet(dependencyMap, pkg, r.deps)
               /\ versionContributors' = r.vc
               /\ next' = next + 1
               /\ UNCHANGED << error, pc >>
    /\ UNCHANGED << comparison, bump >>
    /\ UNCHANGED << objects, clonedProjectConfig, pkgWithDependencies, originalDeps,
                    sortedPackages, sortedPkgWithDependencies, details >>

\* lines 266, 41 and 42: the expanded graph is returned and sorted
SortPackages ==
    /\ pc = "filling"
    /\ next > Len(dependencyMap.keys)
    /\ pkgWithDependencies' = dependencyMap
    /\ sortedPackages' = topologicalSort(dependencyMap)
    /\ pc' = "sorted"
    /\ UNCHANGED << comparison, bump >>
    /\ UNCHANGED << objects, clonedProjectConfig, originalDeps, versionContributors,
                    dependencyMap, next, sortedPkgWithDependencies, details, error >>

\* lines 43 to 57
Assemble ==
    /\ pc = "sorted"
    /\ sortedPkgWithDependencies' = assemble(sortedPackages, pkgWithDependencies)
    /\ pc' = "assembled"
    /\ UNCHANGED << comparison, bump >>
    /\ UNCHANGED << objects, clonedProjectConfig, pkgWithDependencies, originalDeps,
                    versionContributors, dependencyMap, next, sortedPackages,
                    details, error >>

\* The details computed against the expanded graph instead of the copy of
\* line 40.
GenerateDetailsExpanded ==
    /\ pc = "assembled"
    /\ details' = generateDependencyDetails(sortedPackages, sortedPkgWithDependencies,
                                            pkgWithDependencies, versionContributors)
    /\ pc' = "resolved"
    /\ UNCHANGED << comparison, bump >>
    /\ UNCHANGED << objects, clonedProjectConfig, pkgWithDependencies, originalDeps,
                    versionContributors, dependencyMap, next, sortedPackages,
                    sortedPkgWithDependencies, error >>

\* lines 60 to 70
GenerateDetails ==
    /\ pc = "assembled"
    /\ details' = generateDependencyDetails(sortedPackages, sortedPkgWithDependencies,
                                            originalDeps, versionContributors)
    /\ pc' = "resolved"
    /\ UNCHANGED << comparison, bump >>
    /\ UNCHANGED << objects, clonedProjectConfig, pkgWithDependencies, originalDeps,
                    versionContributors, dependencyMap, next, sortedPackages,
                    sortedPkgWithDependencies, error >>

Next ==
    \/ CloneConfig
    \/ CleanupEntries
    \/ BuildGraph
    \/ ExpandPackage
    \/ SortPackages
    \/ Assemble
    \/ GenerateDetails

Spec == Init /\ [][Next]_vars

(***************************************************************************)
(* compareVersions on its own: one call on a pair of version inputs.       *)
(***************************************************************************)
InitCompare ==
    \E a, b \in VersionInputs :
        /\ objects = <<>>
        /\ clonedProjectConfig = 0
        /\ pkgWithDependencies = EmptyMap
        /\ originalDeps = EmptyMap
        /\ versionContributors = <<>>
        /\ dependencyMap = EmptyMap
        /\ next = 0
        /\ sortedPackages = <<>>
        /\ sortedPkgWithDependencies = EmptyMap
        /\ details = EmptyMap
        /\ error = NoError
        /\ comparison = [a |-> a, b |-> b, version1 |-> formatVersion(a),
                         version2 |-> formatVersion(b), result |-> Num(0)]
        /\ bump = NoBump
        /\ pc = "compare"

\* lines 73 to 112
Compare ==
    /\ pc = "compare"
    /\ comparison' = [comparison EXCEPT
                        !.result = compareVersions(comparison.version1,
                                                   comparison.version2)]
    /\ pc' = "compared"
    /\ UNCHANGED << bump, objects, clonedProjectConfig, pkgWithDependencies, originalDeps,
                    versionContributors, dependencyMap, next, sortedPackages,
                    sortedPkgWithDependencies, details, error >>

NextCompare == Compare

SpecCompare == InitCompare /\ [][NextCompare]_vars

\* Versions of four segments whose build-number segment may hold something
\* other than a number.
BaseVersions == {"1.0.0", "1.2.0"}
BuildSegments == {"0", "3", "x", "x3", "3x"}
MarkerSuffixes == {"", ".LATEST"}

BuildInputs ==
    {[base |-> v, build |-> n, marker |-> k] :
        v \in BaseVersions, n \in BuildSegments, k \in MarkerSuffixes}

formatBuildInput(v) == v.base \o "." \o v.build \o v.marker

InitMalformed ==
    \E a, b \in BuildInputs :
        /\ objects = <<>>
        /\ clonedProjectConfig = 0
        /\ pkgWithDependencies = EmptyMap
        /\ originalDeps = EmptyMap
        /\ versionContributors = <<>>
        /\ dependencyMap = EmptyMap
        /\ next = 0
        /\ sortedPackages = <<>>
        /\ sortedPkgWithDependencies = EmptyMap
        /\ details = EmptyMap
        /\ error = NoError
        /\ comparison = [a |-> a, b |-> b, version1 |-> formatBuildInput(a),
                         version2 |-> formatBuildInput(b), result |-> Num(0)]
        /\ bump = NoBump
        /\ pc = "compare"

SpecMalformed == InitMalformed /\ [][NextCompare]_vars

(***************************************************************************)
(* The whole call as a function of the caller's configuration, for the     *)
(* properties that compare two calls.                                      *)
(***************************************************************************)
resolveProject(projectConfig) ==
    LET c == cloneDeep(<<projectConfig>>, CallerRef)
        graph == graphOf(cleanupEntries(c.objects, c.ref)[c.ref])
        filled == fillDepsTransitively(graph, <<>>)
        sorted == topologicalSort(filled.map)
        resolved == assemble(sorted, filled.map)
    IN IF filled.threw
       THEN [threw |-> TRUE, message |-> filled.message,
             resolvedDependencies |-> EmptyMap, details |-> EmptyMap]
       ELSE [threw |-> FALSE, message |-> "",
             resolvedDependencies |-> resolved,
             details |-> generateDependencyDetails(sorted, resolved, graph, filled.vc)]

(***************************************************************************)
(* Notions the properties are stated with.                                 *)
(***************************************************************************)
\* The packages of a graph and the names a package declares.
PackagesOf(g) == DOMAIN g.val

DeclaredBy(g, p) == {MapGet(g, p)[i] : i \in 1..Len(MapGet(g, p))}

DirectTargets(g, p) == {d.package : d \in DeclaredBy(g, p)}

\* The names reachable from the names of `from` by one or more edges.
RECURSIVE ReachableFrom(_, _, _)
ReachableFrom(g, from, seen) ==
    LET step == UNION {DirectTargets(g, p) : p \in from}
    IN IF step \subseteq seen THEN seen
       ELSE ReachableFrom(g, step \ seen, seen \cup step)

Reachable(g, p) == ReachableFrom(g, {p}, {})

HasCycle(g) == \E p \in PackagesOf(g) : p \in Reachable(g, p)

\* The versions of the edges to t declared by p or by a package reachable
\* from p.
DeclaredVersions(g, p, t) ==
    {d.versionNumber :
        d \in {e \in UNION {DeclaredBy(g, q) : q \in {p} \cup Reachable(g, p)} :
                 e.package = t}}

TargetsOf(deps) == {deps[i].package : i \in 1..Len(deps)}

Contains(s, sub) ==
    \E i \in 1..(Len(s) - Len(sub) + 1) : SubSeq(s, i, i + Len(sub) - 1) = sub

Ge0(r) == ~r.nan /\ r.n >= 0

Orders(n) ==
    {f \in [1..n -> 1..n] : \A i, j \in 1..n : f[i] = f[j] => i = j}

\* The caller's configuration with its package directories in another order.
Reordered(projectConfig, f) ==
    [projectConfig EXCEPT
        !.packageDirectories = [i \in 1..Len(@) |-> @[f[i]]]]

\* The expansion ran to its end: every key of dependencyMap was expanded.
Expanded == pc \in {"sorted", "assembled", "resolved"}
              \/ (pc = "filling" /\ next > Len(dependencyMap.keys))

Resolved(p) == MapGet(sortedPkgWithDependencies, p)

(***************************************************************************)
(* C1.  A graph (after the external overlay) with a dependency cycle is    *)
(* rejected: its expansion never runs to its end, and the rejected call    *)
(* holds no resolved list and no detail for any package.  The message      *)
(* holds the chain of package names joined by " -> " followed by the       *)
(* repeated package, and for the cycle a -> b -> a met from a it holds     *)
(* "a -> b -> a".                                                          *)
(***************************************************************************)
C1_CycleRejected ==
    /\ Expanded => ~HasCycle(originalDeps)
    /\ pc = "rejected" =>
         /\ sortedPkgWithDependencies = EmptyMap
         /\ details = EmptyMap
         /\ sortedPackages = <<>>
         /\ Len(error.chain) >= 1
         /\ Contains(error.message,
                     joinArrow(error.chain) \o " -> " \o error.repeated)
         /\ (error.chain = <<"a", "b">> /\ error.repeated = "a")
              => Contains(error.message, ": a -> b -> a.")

\* The cycle a -> b -> a is rejected with c, which is not on it, unresolved.
C1_Witness ==
    /\ pc = "rejected"
    /\ error.chain = <<"a", "b">>
    /\ error.repeated = "a"
    /\ "c" \in PackagesOf(originalDeps)
    /\ DirectTargets(originalDeps, "c") = {AbsentPackage}
    /\ ~("c" \in Reachable(originalDeps, "c"))

(***************************************************************************)
(* C2.  In a resolved call, the targets of the resolved list of every      *)
(* package P of the graph are the names reachable from P by one or more    *)
(* direct edges; a target that is no package of the graph is among them    *)
(* and adds nothing.                                                       *)
(***************************************************************************)
C2_ClosureIsReachable ==
    pc = "resolved" =>
        \A p \in PackagesOf(originalDeps) :
            TargetsOf(Resolved(p)) = Reachable(originalDeps, p)

\* a reaches the absent package through another package only.
C2_Witness ==
    /\ pc = "resolved"
    /\ AbsentPackage \in TargetsOf(Resolved("a"))
    /\ ~(AbsentPackage \in DirectTargets(originalDeps, "a"))
    /\ ~(AbsentPackage \in PackagesOf(originalDeps))

(***************************************************************************)
(* C3.  In a resolved call, the version of P's resolved edge to T is the   *)
(* version of an edge to T declared by P or by a package reachable from P, *)
(* and compareVersions finds it greater than or equal to the version of    *)
(* every such edge.                                                        *)
(***************************************************************************)
C3_HighestDeclaredVersion ==
    pc = "resolved" =>
        \A p \in PackagesOf(originalDeps) :
            \A i \in 1..Len(Resolved(p)) :
                LET t == Resolved(p)[i].package
                    v == Resolved(p)[i].versionNumber
                IN /\ v \in DeclaredVersions(originalDeps, p, t)
                   /\ \A w \in DeclaredVersions(originalDeps, p, t) :
                          Ge0(compareVersions(v, w))

(***************************************************************************)
(* C4.  No two entries of a resolved dependency list have the same target. *)
(***************************************************************************)
C4_UniqueTargets ==
    \A p \in PackagesOf(sortedPkgWithDependencies) :
        \A i, j \in 1..Len(Resolved(p)) :
            Resolved(p)[i].package = Resolved(p)[j].package => i = j

\* a reaches the absent package on two paths, at two versions.
C4_Witness ==
    /\ pc = "resolved"
    /\ Cardinality(DeclaredVersions(originalDeps, "a", AbsentPackage)) >= 2
    /\ AbsentPackage \in TargetsOf(Resolved("a"))

(***************************************************************************)
(* C5.  In a resolved call, if B depends on A (directly or transitively)   *)
(* and both are entries of P's resolved list, A comes before B in it.      *)
(***************************************************************************)
C5_DependenciesFirst ==
    pc = "resolved" =>
        \A p \in PackagesOf(originalDeps) :
            \A i, j \in 1..Len(Resolved(p)) :
                Resolved(p)[i].package \in Reachable(originalDeps, Resolved(p)[j].package)
                    => i < j

\* a declares b before c, b depends on c, and c comes first in a's list.
C5_Witness ==
    /\ pc = "resolved"
    /\ Len(MapGet(originalDeps, "a")) >= 2
    /\ MapGet(originalDeps, "a")[1].package = "b"
    /\ MapGet(originalDeps, "a")[2].package = "c"
    /\ "c" \in DirectTargets(originalDeps, "b")
    /\ Len(Resolved("a")) >= 2
    /\ Resolved("a")[1].package = "c"
    /\ Resolved("a")[2].package = "b"

(***************************************************************************)
(* C6.  A resolved call returns, for every package, the resolved list that *)
(* the call returns for the same package directories in any other order:   *)
(* the same targets and versions, in the same order.                       *)
(***************************************************************************)
C6_OrderIndependent ==
    pc = "resolved" =>
        \A f \in Orders(Len(objects[CallerRef].packageDirectories)) :
            LET other == resolveProject(Reordered(objects[CallerRef], f))
            IN /\ ~other.threw
               /\ \A p \in PackagesOf(originalDeps) :
                      MapGet(other.resolvedDependencies, p) = Resolved(p)

(***************************************************************************)
(* C7.  No step of the call changes the caller's project configuration,    *)
(* whether the call returns a result or raises a cycle error.              *)
(***************************************************************************)
C7_CallerConfigUnchanged ==
    [][objects'[CallerRef] = objects[CallerRef]]_vars

\* A call that raised, having changed its own copy of the configuration.
C7_Witness ==
    /\ pc = "rejected"
    /\ objects[clonedProjectConfig] # objects[CallerRef]

(***************************************************************************)
(* C8.  A call on an acyclic graph raises no error.                        *)
(***************************************************************************)
C8_AcyclicNeverRejected ==
    pc = "rejected" => HasCycle(originalDeps)

\* A resolved call with a diamond, a dependency on the absent package and a
\* dependency without a version.
C8_Witness ==
    /\ pc = "resolved"
    /\ \E p, q, r \in PackagesOf(originalDeps) :
          /\ q # r
          /\ {q, r} \subseteq DirectTargets(originalDeps, p)
          /\ AbsentPackage \in DirectTargets(originalDeps, q)
          /\ AbsentPackage \in DirectTargets(originalDeps, r)

\* A resolved call with a dependency on the absent package declared without
\* a version.
C8_WitnessNoVersion ==
    /\ pc = "resolved"
    /\ \E p \in PackagesOf(originalDeps) :
          Dep(AbsentPackage, NoVersion) \in DeclaredBy(originalDeps, p)

(***************************************************************************)
(* C9.  In a resolved call, a dependency that P declares without a version *)
(* is a target of P's resolved list, and if an edge to the same target     *)
(* declared by P or by a package reachable from P carries a version, P's   *)
(* resolved edge carries a version.                                        *)
(***************************************************************************)
C9_VersionlessYields ==
    pc = "resolved" =>
        \A p \in PackagesOf(originalDeps) :
            \A d \in DeclaredBy(originalDeps, p) :
                d.versionNumber = NoVersion =>
                    /\ d.package \in TargetsOf(Resolved(p))
                    /\ DeclaredVersions(originalDeps, p, d.package) # {NoVersion}
                         => \A i \in 1..Len(Resolved(p)) :
                               Resolved(p)[i].package = d.package
                                   => Resolved(p)[i].versionNumber # NoVersion

\* a declares the absent package without a version first, and then with one.
C9_Witness ==
    /\ pc = "resolved"
    /\ Len(MapGet(originalDeps, "a")) >= 2
    /\ MapGet(originalDeps, "a")[1] = Dep(AbsentPackage, NoVersion)
    /\ MapGet(originalDeps, "a")[2] = Dep(AbsentPackage, "1.0.0.3")
    /\ Dep(AbsentPackage, "1.0.0.3") \in {Resolved("a")[i] : i \in 1..Len(Resolved("a"))}

\* Package a reaches the version-less edge first and the versioned one through b.
C9_WitnessTransitive ==
    /\ pc = "resolved"
    /\ MapGet(originalDeps, "a") = <<Dep(AbsentPackage, NoVersion), Dep("b", NoVersion)>>
    /\ MapGet(originalDeps, "b") = <<Dep(AbsentPackage, "1.0.0.3")>>
    /\ Dep(AbsentPackage, "1.0.0.3") \in {Resolved("a")[i] : i \in 1..Len(Resolved("a"))}

(***************************************************************************)
(* C10.  As claimed: in the detail map, a dependency that P declares is    *)
(* marked isDirect, and one that P does not declare is not.                *)
(***************************************************************************)
C10_DeclaredIsDirect ==
    pc = "resolved" =>
        \A p \in PackagesOf(details) :
            \A t \in PackagesOf(details.val[p]) :
                details.val[p].val[t].isDirect <=> t \in DirectTargets(originalDeps, p)

(***************************************************************************)
(* C10, amended.  A dependency is marked isDirect exactly when P declares  *)
(* it at the version of P's resolved edge: a dependency that P does not    *)
(* declare is not marked, and neither is one whose declarations by P were  *)
(* all outvoted by another version.                                        *)
(***************************************************************************)
C10_DeclaredAtResolvedVersionIsDirect ==
    pc = "resolved" =>
        \A p \in PackagesOf(originalDeps) :
            \A i \in 1..Len(Resolved(p)) :
                /\ p \in PackagesOf(details)
                /\ Resolved(p)[i].package \in PackagesOf(details.val[p])
                /\ details.val[p].val[Resolved(p)[i].package].isDirect
                     <=> Resolved(p)[i] \in DeclaredBy(originalDeps, p)

\* a declares b, which it keeps as declared, and gets the absent package
\* through b only.
C10_Witness ==
    /\ pc = "resolved"
    /\ DirectTargets(originalDeps, "a") = {"b"}
    /\ AbsentPackage \in DirectTargets(originalDeps, "b")
    /\ "a" \in PackagesOf(details)
    /\ details.val["a"].val["b"].isDirect
    /\ ~details.val["a"].val[AbsentPackage].isDirect

(***************************************************************************)
(* Notions of the claims on the detail map.                                *)
(***************************************************************************)
\* The detail entry of package p for target t.
Detail(p, t) == details.val[p].val[t]

HasDetail(p, t) == MapHas(details, p) /\ MapHas(details.val[p], t)

SeqSet(s) == {s[i] : i \in 1..Len(s)}

\* The versions at which p declares t.
VersionsDeclared(g, p, t) == {d.versionNumber : d \in {e \in DeclaredBy(g, p) : e.package = t}}

(***************************************************************************)
(* C11.  In a resolved call, when root declares exactly pa and pb, each of *)
(* pa and pb declares shared at one and the same version, and no package   *)
(* other than root, pa and pb depends on shared (directly or through other *)
(* packages), root's detail entry for shared is not direct and lists two   *)
(* contributors, pa and pb.  The packages play these roles in every order  *)
(* of the package directories.                                             *)
(***************************************************************************)
C11_SharedContributors ==
    pc = "resolved" =>
        \A root, pa, pb \in PackagesOf(originalDeps) :
            \A shared \in DirectTargets(originalDeps, pa) :
                ( /\ pa # pb
                  /\ DirectTargets(originalDeps, root) = {pa, pb}
                  /\ Cardinality(VersionsDeclared(originalDeps, pa, shared)) = 1
                  /\ VersionsDeclared(originalDeps, pb, shared)
                       = VersionsDeclared(originalDeps, pa, shared)
                  /\ \A q \in PackagesOf(originalDeps) \ {root, pa, pb} :
                        shared \notin Reachable(originalDeps, q) )
                => /\ HasDetail(root, shared)
                   /\ ~Detail(root, shared).isDirect
                   /\ Len(Detail(root, shared).contributors) = 2
                   /\ SeqSet(Detail(root, shared).contributors) = {pa, pb}

\* d is the root, declared before its dependencies a and c, which share the
\* absent package; b depends on nothing that leads to it.
C11_Witness ==
    /\ pc = "resolved"
    /\ DirectTargets(originalDeps, "d") = {"a", "c"}
    /\ DirectTargets(originalDeps, "a") = {AbsentPackage}
    /\ DirectTargets(originalDeps, "c") = {AbsentPackage}
    /\ MapHas(originalDeps, "b")
    /\ AbsentPackage \notin Reachable(originalDeps, "b")
    /\ HasDetail("d", AbsentPackage)
    /\ SeqSet(Detail("d", AbsentPackage).contributors) = {"a", "c"}

(***************************************************************************)
(* C12.  P declares B and not A, B declares A at the single version V, and *)
(* P -> B -> A is P's only path to A.                                      *)
(***************************************************************************)
OnlyThrough(g, p, b, a) ==
    /\ b \in DirectTargets(g, p)
    /\ a \in DirectTargets(g, b)
    /\ \A q \in DirectTargets(g, p) \ {b} : a \notin {q} \cup Reachable(g, q)
    /\ \A r \in DirectTargets(g, b) \ {a} : a \notin Reachable(g, r)

C13_OneEntryPerPackage ==
    pc \in {"assembled", "resolved"} =>
        /\ PackagesOf(sortedPkgWithDependencies) = PackagesOf(originalDeps)
        /\ Len(sortedPkgWithDependencies.keys)
             = Cardinality(PackagesOf(sortedPkgWithDependencies))
        /\ \A p \in PackagesOf(originalDeps) :
              MapGet(originalDeps, p) = <<>> => Resolved(p) = <<>>

(***************************************************************************)
(* C14.  In a resolved call the detail map has an entry for P exactly when *)
(* P's resolved list is not empty; the keys of the entry are the targets   *)
(* of the resolved list, and the version of each is the version of the     *)
(* resolved edge, or "unknown" when the edge has none.                     *)
(***************************************************************************)
C14_DetailsMirrorResolved ==
    pc = "resolved" =>
        /\ PackagesOf(details) \subseteq PackagesOf(sortedPkgWithDependencies)
        /\ \A p \in PackagesOf(sortedPkgWithDependencies) :
              /\ MapHas(details, p) <=> Len(Resolved(p)) > 0
              /\ MapHas(details, p) =>
                    /\ PackagesOf(details.val[p]) = TargetsOf(Resolved(p))
                    /\ \A i \in 1..Len(Resolved(p)) :
                          Detail(p, Resolved(p)[i].package).version
                            = IF Resolved(p)[i].versionNumber = NoVersion
                              THEN "unknown"
                              ELSE Resolved(p)[i].versionNumber

\* a declares the absent package without a version and b with one; b declares
\* nothing and has no entry.
C14_Witness ==
    /\ pc = "resolved"
    /\ MapGet(originalDeps, "a") = <<Dep(AbsentPackage, NoVersion), Dep("b", "1.0.0.LATEST")>>
    /\ MapGet(originalDeps, "b") = <<>>
    /\ ~MapHas(details, "b")
    /\ HasDetail("a", AbsentPackage)
    /\ Detail("a", AbsentPackage).version = "unknown"
    /\ Detail("a", "b").version = "1.0.0.LATEST"

(***************************************************************************)
(* C15.  The graph the call builds is the merge of the package graph with  *)
(* the external dependency map handed to the merge: every key of the       *)
(* external map has exactly its external list, every other package the     *)
(* list of its package directory, there is no other key, and without       *)
(* external entries the graph is the package graph.                        *)
(***************************************************************************)
Built == pc \notin {"start", "cloned", "cleaned"}

C15_ExternalReplaces ==
    Built =>
        LET base == getAllPackagesAndItsDependencies(objects[clonedProjectConfig])
            ext == fetchDependencyEntries(objects[clonedProjectConfig])
        IN /\ PackagesOf(originalDeps) = PackagesOf(base) \cup PackagesOf(ext)
           /\ \A k \in PackagesOf(ext) : originalDeps.val[k] = ext.val[k]
           /\ \A p \in PackagesOf(base) \ PackagesOf(ext) :
                 originalDeps.val[p] = base.val[p]
           /\ ext = EmptyMap => originalDeps = base

\* c has a list of its own and an external one; a has a list and no
\* external one.
C15_Witness ==
    /\ Built
    /\ LET base == getAllPackagesAndItsDependencies(objects[clonedProjectConfig])
           ext == fetchDependencyEntries(objects[clonedProjectConfig])
       IN /\ MapHas(ext, "c")
          /\ ext.val["c"] = <<Dep("y", NoVersion)>>
          /\ base.val["c"] = <<Dep("a", "1.0.0.LATEST")>>
          /\ base.val["a"] = <<Dep(AbsentPackage, "1.0.0.LATEST")>>
          /\ originalDeps.val["c"] = <<Dep("y", NoVersion)>>
          /\ originalDeps.val["a"] = base.val["a"]

(***************************************************************************)
(* C16.  The reference order of two version inputs: -1, 0 or 1.            *)
(***************************************************************************)
Floating(v) == v.marker # ""

SegmentOf(v, i) == IF i <= Len(v.segments) THEN v.segments[i] ELSE 0

BuildOf(v) == IF v.build = NoBuild THEN 0 ELSE v.build

SignOfDifference(m, n) == IF m < n THEN -1 ELSE IF m > n THEN 1 ELSE 0

RefOrder(a, b) ==
    IF a.absent /\ b.absent THEN 0
    ELSE IF a.absent THEN -1
    ELSE IF b.absent THEN 1
    ELSE IF Floating(a) /\ ~Floating(b) THEN 1
    ELSE IF Floating(b) /\ ~Floating(a) THEN -1
    ELSE IF SegmentOf(a, 1) # SegmentOf(b, 1)
         THEN SignOfDifference(SegmentOf(a, 1), SegmentOf(b, 1))
    ELSE IF SegmentOf(a, 2) # SegmentOf(b, 2)
         THEN SignOfDifference(SegmentOf(a, 2), SegmentOf(b, 2))
    ELSE IF SegmentOf(a, 3) # SegmentOf(b, 3)
         THEN SignOfDifference(SegmentOf(a, 3), SegmentOf(b, 3))
    ELSE SignOfDifference(BuildOf(a), BuildOf(b))

(***************************************************************************)
(* C16.  For two version inputs, each absent or well formed, the result of *)
(* compareVersions is a number whose sign is the reference order: absent   *)
(* below present, a floating marker above none, then the three segments    *)
(* as numbers (a missing one as 0), then the build number (none as 0).     *)
(***************************************************************************)
C16_SignIsReferenceOrder ==
    pc = "compared" =>
        /\ ~comparison.result.nan
        /\ SignOfDifference(comparison.result.n, 0)
             = RefOrder(comparison.a, comparison.b)

\* Build number 10 against build number 3, and a two-segment version with a
\* marker against a longer one without.
C16_Witness ==
    /\ pc = "compared"
    /\ \/ /\ comparison.version1 = "2.0.0.10"
          /\ comparison.version2 = "2.0.0.3"
          /\ comparison.result.n > 0
       \/ /\ comparison.version1 = "0.2.NEXT"
          /\ comparison.version2 = "10.2.2.10"
          /\ comparison.result.n > 0

(***************************************************************************)
(* C17.  While the package at `next` is expanded, every list the expansion *)
(* reads, its own and the one of each package it reaches, is the list of   *)
(* the graph before the expansion: no result of an earlier iteration is    *)
(* read.                                                                   *)
(***************************************************************************)
C17_ReadsDirectLists ==
    (pc = "filling" /\ next <= Len(dependencyMap.keys) /\ ~HasCycle(originalDeps)) =>
        \A x \in ({dependencyMap.keys[next]}
                    \cup Reachable(originalDeps, dependencyMap.keys[next]))
                 \cap PackagesOf(dependencyMap) :
            MapGet(dependencyMap, x) = MapGet(originalDeps, x)

(***************************************************************************)
(* C18.  In a resolved call, let P's resolved edge to T carry version V.   *)
(* Every supplier of an edge to T that compares equal to V is among the    *)
(* contributors of (T, V): P when P declares such an edge, and the         *)
(* intermediate package D that P declares when D's own resolved edge to T  *)
(* is such an edge.                                                        *)
(***************************************************************************)
ComparesEqual(v, w) ==
    LET r == compareVersions(v, w) IN ~r.nan /\ r.n = 0

C18_TieKeepsContributor ==
    pc = "resolved" =>
        \A p \in PackagesOf(originalDeps) :
            \A i \in 1..Len(Resolved(p)) :
                LET t == Resolved(p)[i].package
                    v == Resolved(p)[i].versionNumber
                    listed == SeqSet(contributorsOf(versionContributors, t, v))
                IN /\ \A d \in DeclaredBy(originalDeps, p) :
                         (d.package = t /\ ComparesEqual(d.versionNumber, v))
                             => p \in listed
                   /\ \A d \in DirectTargets(originalDeps, p) \cap PackagesOf(originalDeps) :
                         \A j \in 1..Len(Resolved(d)) :
                             ( /\ Resolved(d)[j].package = t
                               /\ ComparesEqual(Resolved(d)[j].versionNumber, v) )
                             => d \in listed

(***************************************************************************)
(* C19.  In a resolved call the contributors of every detail entry are in  *)
(* ascending order of package name.                                        *)
(***************************************************************************)
NameOrder == <<"a", "b", "c", "d", "x", "y">>

C19_ContributorsSorted ==
    pc = "resolved" =>
        \A p \in PackagesOf(details) :
            \A t \in PackagesOf(details.val[p]) :
                \A i, j \in 1..Len(Detail(p, t).contributors) :
                    i < j => indexOf(NameOrder, Detail(p, t).contributors[i])
                               < indexOf(NameOrder, Detail(p, t).contributors[j])

(***************************************************************************)
(* C20.  In a resolved call, P's detail entry for T is marked isDirect     *)
(* exactly when the graph built from the configuration before any          *)
(* expansion (package directories with the external overlay) holds, for P, *)
(* an edge to T with the very version string of P's resolved edge to T.    *)
(***************************************************************************)
C20_IsDirectIffExactEdge ==
    pc = "resolved" =>
        LET direct == graphOf(objects[clonedProjectConfig])
        IN \A p \in PackagesOf(details) :
               \A i \in 1..Len(Resolved(p)) :
                   LET t == Resolved(p)[i].package
                   IN /\ HasDetail(p, t)
                      /\ Detail(p, t).isDirect
                           <=> \E k \in 1..Len(MapGet(direct, p)) :
                                  /\ MapGet(direct, p)[k].package = t
                                  /\ MapGet(direct, p)[k].versionNumber
                                       = Resolved(p)[i].versionNumber

\* a declares the absent package at 1.0.0.3 and b; b declares it at
\* 1.1.0.LATEST, the version a resolves to: a's entry is not direct, b's is.
C20_Witness ==
    /\ pc = "resolved"
    /\ MapGet(originalDeps, "a") = <<Dep(AbsentPackage, "1.0.0.3"), Dep("b", "1.0.0.LATEST")>>
    /\ MapGet(originalDeps, "b") = <<Dep(AbsentPackage, "1.1.0.LATEST")>>
    /\ HasDetail("a", AbsentPackage)
    /\ Detail("a", AbsentPackage).version = "1.1.0.LATEST"
    /\ ~Detail("a", AbsentPackage).isDirect
    /\ Detail("a", "b").isDirect
    /\ Detail("b", AbsentPackage).isDirect

(***************************************************************************)
(* C21.  In a resolved call, whenever P's detail entry for T is marked     *)
(* isDirect, P is one of the contributors of that entry.                   *)
(***************************************************************************)
C21_DirectListsItself ==
    pc = "resolved" =>
        \A p \in PackagesOf(details) :
            \A t \in PackagesOf(details.val[p]) :
                Detail(p, t).isDirect => p \in SeqSet(Detail(p, t).contributors)

\* a declares the absent package twice, the higher version second, and b:
\* a's entry is direct at the higher version and lists a.
C21_Witness ==
    /\ pc = "resolved"
    /\ MapGet(originalDeps, "a") = <<Dep(AbsentPackage, "1.0.0.3"),
                                     Dep(AbsentPackage, "1.1.0.LATEST"), Dep("b", NoVersion)>>
    /\ HasDetail("a", AbsentPackage)
    /\ Detail("a", AbsentPackage).isDirect
    /\ Detail("a", AbsentPackage).version = "1.1.0.LATEST"
    /\ "a" \in SeqSet(Detail("a", AbsentPackage).contributors)

(***************************************************************************)
(* C22.  As claimed: in a resolved call every contributor of P's detail    *)
(* entry for T is P or a target of P's resolved list.                      *)
(***************************************************************************)
C22_ContributorsInClosure ==
    pc = "resolved" =>
        \A p \in PackagesOf(details) :
            \A t \in PackagesOf(details.val[p]) :
                SeqSet(Detail(p, t).contributors) \subseteq {p} \cup TargetsOf(Resolved(p))

(***************************************************************************)
(* C22, amended.  The contributors of P's detail entry for T are the ones  *)
(* the whole call recorded for T at the version V of P's resolved edge.    *)
(* Each of them declares T at V or has T at V in its own resolved list; it *)
(* need not be P or in P's resolved list.                                  *)
(***************************************************************************)
C22_ContributorsOfVersion ==
    pc = "resolved" =>
        \A p \in PackagesOf(details) :
            \A i \in 1..Len(Resolved(p)) :
                LET t == Resolved(p)[i].package
                    v == Resolved(p)[i].versionNumber
                IN /\ HasDetail(p, t)
                   /\ Detail(p, t).contributors = contributorsOf(versionContributors, t, v)
                   /\ \A c \in SeqSet(Detail(p, t).contributors) :
                         \/ v \in VersionsDeclared(originalDeps, c, t)
                         \/ Dep(t, v) \in SeqSet(Resolved(c))

\* a and b both declare the absent package and nothing else: a's entry for
\* it lists b, which a does not depend on.
C22_Witness ==
    /\ pc = "resolved"
    /\ DirectTargets(originalDeps, "a") = {AbsentPackage}
    /\ DirectTargets(originalDeps, "b") = {AbsentPackage}
    /\ TargetsOf(Resolved("a")) = {AbsentPackage}
    /\ HasDetail("a", AbsentPackage)
    /\ "b" \in SeqSet(Detail("a", AbsentPackage).contributors)

(***************************************************************************)
(* C23.  topologicalSort returns every name of the graph it is given, the  *)
(* packages and the targets they declare, exactly once, also for a graph   *)
(* with a cycle.  Once the expansion of an acyclic graph is sorted, every  *)
(* package comes after every package it depends on, and the resolved map   *)
(* enumerates its keys in that order.                                      *)
(***************************************************************************)
NamesOf(g) == PackagesOf(g) \cup UNION {DirectTargets(g, p) : p \in PackagesOf(g)}

ExactlyOnce(s, names) ==
    /\ SeqSet(s) = names
    /\ Len(s) = Cardinality(names)

C23_TopologicalOrder ==
    /\ pc = "start" =>
          LET direct == graphOf(objects[CallerRef])
          IN ExactlyOnce(topologicalSort(direct), NamesOf(direct))
    /\ pc \in {"sorted", "assembled", "resolved"} =>
          /\ ExactlyOnce(sortedPackages, NamesOf(originalDeps))
          /\ \A p \in PackagesOf(originalDeps) :
                \A d \in Reachable(originalDeps, p) :
                    indexOf(sortedPackages, d) < indexOf(sortedPackages, p)
    /\ pc \in {"assembled", "resolved"} =>
          sortedPkgWithDependencies.keys = sortedPackages

\* a -> b -> x and c -> a, the directories in the order a, b, c.
C23_Witness ==
    /\ pc = "resolved"
    /\ DirectTargets(originalDeps, "a") = {"b"}
    /\ DirectTargets(originalDeps, "b") = {AbsentPackage}
    /\ DirectTargets(originalDeps, "c") = {"a"}
    /\ sortedPackages = <<AbsentPackage, "b", "a", "c">>
    /\ sortedPkgWithDependencies.keys = sortedPackages

(***************************************************************************)
(* C24.  In a rejected call the reported chain starts at the package whose *)
(* expansion was in progress and holds no package twice; each package of   *)
(* the chain declares the next one in the graph as it was before the       *)
(* expansion, the last one declares the repeated package, and the repeated *)
(* package is in the chain.  The message is written from that chain.       *)
(***************************************************************************)
C24_ChainIsDirectPath ==
    pc = "rejected" =>
        /\ Len(error.chain) >= 1
        /\ error.chain[1] = dependencyMap.keys[next]
        /\ Cardinality(SeqSet(error.chain)) = Len(error.chain)
        /\ \A i \in 1..(Len(error.chain) - 1) :
              error.chain[i + 1] \in DirectTargets(originalDeps, error.chain[i])
        /\ error.repeated \in DirectTargets(originalDeps, error.chain[Len(error.chain)])
        /\ error.repeated \in SeqSet(error.chain)
        /\ error.message = errorMessage(error.chain, error.repeated)

\* c is expanded after a, whose expanded list is already written: c's cycle
\* with d is reported, two packages long.
C24_Witness ==
    /\ pc = "rejected"
    /\ next = 3
    /\ MapGet(dependencyMap, "a") # MapGet(originalDeps, "a")
    /\ error.chain = <<"c", "d">>
    /\ error.repeated = "c"

(***************************************************************************)
(* C25.  Every call ends, with its result or with the cycle error.  The    *)
(* chain a call is entered with holds no package twice, so the depth of    *)
(* the recursion (the number of calls nested in the call the loop makes)   *)
(* never exceeds the number of distinct package names of the graph, and    *)
(* for an acyclic graph it never exceeds the number of edges of the        *)
(* longest dependency chain, and the call returns.  Every step of the call *)
(* lowers a measure in the naturals ordered lexicographically (the phases  *)
(* left, then the packages the loop has left), so no call takes infinitely *)
(* many steps, and the measure is lowest in the two final states only.     *)
(***************************************************************************)
NamesOfGraph(g) == PackagesOf(g) \cup UNION {DirectTargets(g, p) : p \in PackagesOf(g)}

MaxOf(S) == IF S = {} THEN 0 ELSE CHOOSE m \in S : \A n \in S : n <= m

\* The number of edges of the longest chain from p, in an acyclic graph.
RECURSIVE LongestFrom(_, _)
LongestFrom(g, p) ==
    IF p \notin PackagesOf(g) \/ DirectTargets(g, p) = {} THEN 0
    ELSE 1 + MaxOf({LongestFrom(g, t) : t \in DirectTargets(g, p)})

LongestChain(g) == MaxOf({LongestFrom(g, p) : p \in PackagesOf(g)})

Expanding == pc = "filling" /\ next <= Len(dependencyMap.keys)

NextCall ==
    resolveDependencies(dependencyMap.keys[next], <<>>, dependencyMap,
                        versionContributors)

C25_DepthBounded ==
    /\ Expanding =>
          LET call == NextCall
          IN /\ call.depth <= Cardinality(NamesOfGraph(originalDeps))
             /\ call.threw => Cardinality(SeqSet(call.chain)) = Len(call.chain)
             /\ ~HasCycle(originalDeps) =>
                   /\ ~call.threw
                   /\ call.depth <= LongestChain(originalDeps)
    /\ pc = "rejected" =>
          /\ Cardinality(SeqSet(error.chain)) = Len(error.chain)
          /\ Len(error.chain) <= Cardinality(NamesOfGraph(originalDeps))

\* The steps the call still has before it: the phases after pc, and while
\* the loop runs the packages it has not expanded.
Phase ==
    CASE pc = "start" -> 6
      [] pc = "cloned" -> 5
      [] pc = "cleaned" -> 4
      [] pc = "filling" -> 3
      [] pc = "sorted" -> 2
      [] pc = "assembled" -> 1
      [] OTHER -> 0

Remaining == Len(dependencyMap.keys) + 1 - next

Advances ==
    \/ Phase' < Phase
    \/ /\ pc = "filling"
       /\ pc' = "filling"
       /\ Remaining \in Nat
       /\ Remaining' \in Nat
       /\ Remaining' < Remaining

C25_Terminates ==
    /\ []C25_DepthBounded
    /\ [][Advances]_vars

\* The chain a -> b -> c -> d is followed to its end: three calls nested in
\* the first.
C25_Witness ==
    /\ Expanding
    /\ ~HasCycle(originalDeps)
    /\ NextCall.depth = 3
    /\ LongestChain(originalDeps) = 3

(***************************************************************************)
(* C26.  compareVersions returns a number for every pair of versions, and  *)
(* a build-number segment that is not a number counts as 0: the comparison *)
(* of two versions is the comparison of the same versions with every       *)
(* non-numeric build-number segment replaced by 0, so X.Y.Z.x is lower     *)
(* than X.Y.Z.N and X.Y.Z.N higher than X.Y.Z.x for N > 0.                 *)
(***************************************************************************)
Numeric(segment) ==
    /\ Len(segment) > 0
    /\ \A i \in 1..Len(segment) : CharAt(segment, i) \in Digits

Zeroed(v) == [v EXCEPT !.build = IF Numeric(v.build) THEN v.build ELSE "0"]

C26_MalformedBuildIsZero ==
    pc = "compared" =>
        /\ ~comparison.result.nan
        /\ comparison.result
             = compareVersions(formatBuildInput(Zeroed(comparison.a)),
                               formatBuildInput(Zeroed(comparison.b)))
        /\ (/\ comparison.a.base = comparison.b.base
            /\ comparison.a.marker = comparison.b.marker
            /\ ~Numeric(comparison.a.build)
            /\ comparison.b.build = "3") => Lt0(comparison.result)
        /\ (/\ comparison.a.base = comparison.b.base
            /\ comparison.a.marker = comparison.b.marker
            /\ comparison.a.build = "3"
            /\ ~Numeric(comparison.b.build)) => Gt0(comparison.result)

\* What the code does with such a segment: parseInt reads its leading digits
\* and gives NaN when it has none, and NaN makes the difference NaN.
C26_MalformedBuildIsParseInt ==
    pc = "compared" =>
        /\ comparison.version1 = "1.0.0.x" /\ comparison.version2 = "1.0.0.3"
              => comparison.result = NaN
        /\ comparison.version1 = "1.0.0.3" /\ comparison.version2 = "1.0.0.x"
              => comparison.result = NaN
        /\ comparison.version1 = "1.0.0.3x" /\ comparison.version2 = "1.0.0.0"
              => comparison.result = Num(3)
        /\ comparison.version1 = "1.2.0.x" /\ comparison.version2 = "1.0.0.x"
              => comparison.result = Num(1)

(***************************************************************************)
(* C27.  Resolution is idempotent: when the call resolved, the project     *)
(* whose packages declare their resolved lists in place of their direct    *)
(* lists resolves too, and to the same list for every package: the same    *)
(* targets at the same versions in the same order.                         *)
(***************************************************************************)
\* The project with every package's dependencies replaced by its list in
\* the map `lists`.
Redeclared(projectConfig, lists) ==
    [projectConfig EXCEPT !.packageDirectories =
        [i \in DOMAIN projectConfig.packageDirectories |->
            [projectConfig.packageDirectories[i] EXCEPT !.dependencies =
                IF MapHas(lists, projectConfig.packageDirectories[i].package)
                THEN MapGet(lists, projectConfig.packageDirectories[i].package)
                ELSE @]]]

ResolvedAgain == resolveProject(Redeclared(objects[CallerRef], sortedPkgWithDependencies))

C27_Idempotent ==
    pc = "resolved" =>
        LET again == ResolvedAgain
        IN /\ ~again.threw
           /\ \A p \in SeqSet(sortedPkgWithDependencies.keys) :
                 /\ MapHas(again.resolvedDependencies, p)
                 /\ MapGet(again.resolvedDependencies, p) = Resolved(p)

\* A package whose resolved list holds a target it did not declare and a
\* declared target at a higher version than it declared.
C27_Witness ==
    /\ pc = "resolved"
    /\ \E p \in SeqSet(sortedPkgWithDependencies.keys) :
          /\ MapHas(originalDeps, p)
          /\ TargetsOf(Resolved(p)) # DirectTargets(originalDeps, p)
          /\ \E i \in 1..Len(Resolved(p)) :
                \E d \in DeclaredBy(originalDeps, p) :
                    /\ d.package = Resolved(p)[i].package
                    /\ Gt0(compareVersions(Resolved(p)[i].versionNumber,
                                           d.versionNumber))
          /\ MapGet(ResolvedAgain.resolvedDependencies, p) = Resolved(p)

(***************************************************************************)
(* The version bump command: VersionedPackage                              *)
(***************************************************************************)
NEXT_SUFFIX == ".NEXT"
LATEST_SUFFIX == ".LATEST"

\* null, written as JavaScript writes it when it is joined to a string
Null == "null"

\* String.prototype.includes
includes(s, sub) == Contains(s, sub)

\* semver.inc(version, release): the version with its major, minor or patch
\* number raised, null when version is not three numbers or release is not
\* a release type
inc(version, release) ==
    LET parts == split(version)
    IN IF \/ Len(parts) # 3
          \/ \E i \in 1..Len(parts) : ~Numeric(parts[i])
          \/ release \notin {"major", "minor", "patch"}
       THEN Null
       ELSE LET major == parseInt(parts[1]).n
                minor == parseInt(parts[2]).n
                patch == parseInt(parts[3]).n
            IN CASE release = "major" -> join(<<Numeral(major + 1), "0", "0">>)
                 [] release = "minor" -> join(<<Numeral(major), Numeral(minor + 1), "0">>)
                 [] release = "patch" -> join(<<Numeral(major), Numeral(minor),
                                               Numeral(patch + 1)>>)

\* new VersionedPackage(dependency): a dependency is a package without
\* dependencies of its own
newDependency(dependency) ==
    [packageName |-> dependency.package, currentVersion |-> dependency.versionNumber,
     newVersion |-> Null, dependencies |-> <<>>]

VersionedPackage(pkg) ==
    [packageName |-> pkg.package, currentVersion |-> pkg.versionNumber,
     newVersion |-> Null,
     dependencies |-> [i \in 1..Len(pkg.dependencies) |->
                          newDependency(pkg.dependencies[i])]]

isUpdated(pkg) == pkg.newVersion # Null

getSuffix(pkg) ==
    IF includes(pkg.currentVersion, NEXT_SUFFIX) THEN NEXT_SUFFIX
    ELSE IF includes(pkg.currentVersion, LATEST_SUFFIX) THEN LATEST_SUFFIX
    ELSE ".0"

versionByParts(rawVersion) == slice3(split(rawVersion))

cleanedVersion(version) == join(versionByParts(version))

\* updateVersion without its lines 78 to 80: the version is set again
updateVersionAgain(pkg, version) ==
    [pkg EXCEPT !.newVersion = version \o getSuffix(pkg)]

\* semver.coerce gives null for what it cannot read and does not throw, so
\* the try block has no effect
updateVersion(pkg, version) ==
    IF isUpdated(pkg) THEN pkg
    ELSE [pkg EXCEPT !.newVersion = version \o getSuffix(pkg)]

\* increment(versionType = 'patch', customVersion = null): no return after
\* the custom version is set, so updateVersion is called a second time
increment(pkg, versionType, customVersion) ==
    LET custom == IF versionType = "custom" THEN updateVersion(pkg, customVersion)
                  ELSE pkg
    IN updateVersion(custom, inc(cleanedVersion(custom.currentVersion), versionType))

\* The index of the first dependency of that name, 0 for none.
RECURSIVE findDependency(_, _, _)
findDependency(dependencies, packageName, i) ==
    IF i > Len(dependencies) THEN 0
    ELSE IF dependencies[i].packageName = packageName THEN i
    ELSE findDependency(dependencies, packageName, i + 1)

getDependency(pkg, parentPackage) ==
    findDependency(pkg.dependencies, parentPackage.packageName, 1)

\* The package after the call, the index of the dependency returned (0 for
\* null), and whether the call threw: cleanedVersion(null) reads null.split
updateDependency(pkg, parentPackage) ==
    LET k == getDependency(pkg, parentPackage)
    IN IF k = 0 \/ isUpdated(pkg.dependencies[k])
       THEN [threw |-> FALSE, dependency |-> 0, pkg |-> pkg]
       ELSE IF parentPackage.newVersion = Null
       THEN [threw |-> TRUE, dependency |-> 0, pkg |-> pkg]
       ELSE [threw |-> FALSE, dependency |-> k,
             pkg |-> [pkg EXCEPT !.dependencies[k] =
                         updateVersion(@, cleanedVersion(parentPackage.newVersion))]]

writeDependency(dep) ==
    [package |-> dep.packageName,
     versionNumber |-> IF isUpdated(dep) THEN dep.newVersion ELSE dep.currentVersion]

\* { ...pkg, ...updatedPkg.write() } for a package directory that has the
\* keys package, versionNumber and dependencies
write(pkg) ==
    [package |-> pkg.packageName,
     versionNumber |-> IF isUpdated(pkg) THEN pkg.newVersion ELSE pkg.currentVersion,
     dependencies |-> [i \in 1..Len(pkg.dependencies) |->
                          writeDependency(pkg.dependencies[i])]]

(***************************************************************************)
(* The version bump command: VersionUpdater                                *)
(***************************************************************************)
\* this.flags.<name> read as a condition: undefined for a name that is not a
\* flag of the command
flagSet(flags, name) == name \in DOMAIN flags /\ flags[name]

getVersionType(flags) ==
    IF flags.minor THEN "minor"
    ELSE IF flags.major THEN "major"
    ELSE IF flags.versionnumber # "" THEN "custom"
    ELSE "patch"

\* loadProjectData: the Map of the packages, in the order of the directories
loadProjectData(projectData) ==
    [i \in 1..Len(projectData) |-> VersionedPackage(projectData[i])]

RECURSIVE findPackage(_, _, _)
findPackage(projectPackages, packageName, i) ==
    IF i > Len(projectPackages) THEN 0
    ELSE IF projectPackages[i].packageName = packageName THEN i
    ELSE findPackage(projectPackages, packageName, i + 1)

\* SinglePackageUpdate.getUpdatedPackages
singlePackageUpdate(projectPackages, packageName, versionType, versionNumber) ==
    LET i == findPackage(projectPackages, packageName, 1)
    IN IF i = 0
       THEN [exited |-> TRUE, projectPackages |-> projectPackages,
             updatedPackages |-> <<>>]
       ELSE [exited |-> FALSE,
             projectPackages |->
                 [projectPackages EXCEPT ![i] = increment(@, versionType, versionNumber)],
             updatedPackages |-> <<i>>]

\* AllPackageUpdate.getUpdatedPackages
allPackageUpdate(projectPackages, versionType, versionNumber) ==
    [exited |-> FALSE,
     projectPackages |->
         [i \in 1..Len(projectPackages) |->
             increment(projectPackages[i], versionType, versionNumber)],
     updatedPackages |-> [i \in 1..Len(projectPackages) |-> i]]

\* getDiffChecker().getUpdatedPackages(...) when neither targetref nor
\* targetorg is given; flags.versionnumber is undefined when it is not given
getUpdatedPackages(projectPackages, flags) ==
    LET versionNumber == IF flags.versionnumber = "" THEN Null ELSE flags.versionnumber
    IN IF flags.package # ""
       THEN singlePackageUpdate(projectPackages, flags.package,
                                getVersionType(flags), versionNumber)
       ELSE IF flags.all
       THEN allPackageUpdate(projectPackages, getVersionType(flags), versionNumber)
       ELSE [exited |-> TRUE, projectPackages |-> projectPackages,
             updatedPackages |-> <<>>]

\* The two loops of updateDependencies from the u-th updated package and the
\* j-th project package on; st is [projectPackages, updatedDependencies],
\* packages are named by their place in projectPackages.
RECURSIVE updateDependenciesFrom(_, _, _, _, _)
updateDependenciesFrom(st, updatedPackages, u, j, options) ==
    IF u > Len(updatedPackages) THEN st
    ELSE IF j > Len(st.projectPackages)
    THEN updateDependenciesFrom(st, updatedPackages, u + 1, 1, options)
    ELSE LET r == updateDependency(st.projectPackages[j],
                                   st.projectPackages[updatedPackages[u]])
             projectPackage == IF flagSet(options, "incrementDependant")
                               THEN increment(r.pkg, "patch", Null)
                               ELSE r.pkg
         IN IF r.dependency = 0
            THEN updateDependenciesFrom(st, updatedPackages, u, j + 1, options)
            ELSE updateDependenciesFrom(
                     [projectPackages |->
                          [st.projectPackages EXCEPT ![j] = projectPackage],
                      updatedDependencies |-> Append(st.updatedDependencies, j)],
                     updatedPackages, u, j + 1, options)

updateDependencies(projectPackages, updatedPackages, options) ==
    updateDependenciesFrom([projectPackages |-> projectPackages,
                            updatedDependencies |-> <<>>],
                           updatedPackages, 1, 1, options)

\* save: the package directories a package of projectPackages is found for
save(projectData, projectPackages) ==
    [i \in 1..Len(projectData) |->
        LET k == findPackage(projectPackages, projectData[i].package, 1)
        IN IF k = 0 THEN projectData[i] ELSE write(projectPackages[k])]

(***************************************************************************)
(* A run of the command                                                    *)
(***************************************************************************)
BumpPackages == <<"a", "b", "c">>
BumpVersions == <<"1.0.0.NEXT", "2.1.0.LATEST", "0.9.9.4">>
BumpEdges == {<<2, 1>>, <<3, 1>>, <<3, 2>>}
EdgeVersions == {"1.0.0.LATEST", "1.0.0.3"}
CustomVersions == {"", "3.0.0"}
PackageFlags == {"", "a", "b", "zz"}

RECURSIVE bumpDependenciesFrom(_, _, _, _)
bumpDependenciesFrom(edges, i, j, edgeVersion) ==
    IF j > Len(BumpPackages) THEN <<>>
    ELSE (IF <<i, j>> \in edges
          THEN <<Dep(BumpPackages[j], edgeVersion)>> ELSE <<>>)
         \o bumpDependenciesFrom(edges, i, j + 1, edgeVersion)

BumpProject(edges, edgeVersion) ==
    [i \in 1..Len(BumpPackages) |->
        [package |-> BumpPackages[i], versionNumber |-> BumpVersions[i],
         dependencies |-> bumpDependenciesFrom(edges, i, 1, edgeVersion)]]

BumpFlags ==
    [package : PackageFlags, all : BOOLEAN, minor : BOOLEAN, major : BOOLEAN,
     versionnumber : CustomVersions, deps : BOOLEAN, dryrun : BOOLEAN]

resolverVars == << objects, clonedProjectConfig, pkgWithDependencies, originalDeps,
                   versionContributors, dependencyMap, next, sortedPackages,
                   sortedPkgWithDependencies, details, error, comparison >>

ResolverIdle ==
    /\ objects = <<>>
    /\ clonedProjectConfig = 0
    /\ pkgWithDependencies = EmptyMap
    /\ originalDeps = EmptyMap
    /\ versionContributors = <<>>
    /\ dependencyMap = EmptyMap
    /\ next = 0
    /\ sortedPackages = <<>>
    /\ sortedPkgWithDependencies = EmptyMap
    /\ details = EmptyMap
    /\ error = NoError
    /\ comparison = NoComparison

InitBump ==
    \E edges \in SUBSET BumpEdges, edgeVersion \in EdgeVersions, flags \in BumpFlags :
        /\ ResolverIdle
        /\ bump = [NoBump EXCEPT !.flags = flags,
                                 !.file = BumpProject(edges, edgeVersion)]
        /\ pc = "bump"

\* line 265
LoadProjectData ==
    /\ pc = "bump"
    /\ bump' = [bump EXCEPT !.projectData = bump.file,
                            !.projectPackages = loadProjectData(bump.file)]
    /\ pc' = "loaded"
    /\ UNCHANGED resolverVars

\* lines 305 to 308; process.exit(1) ends the run
GetUpdatedPackages ==
    /\ pc = "loaded"
    /\ LET r == getUpdatedPackages(bump.projectPackages, bump.flags)
       IN /\ bump' = [bump EXCEPT !.projectPackages = r.projectPackages,
                                  !.updatedPackages = r.updatedPackages,
                                  !.exited = r.exited]
          /\ pc' = IF r.exited THEN "exited" ELSE "updated"
    /\ UNCHANGED resolverVars

\* lines 310 to 320
UpdateDependencies ==
    /\ pc = "updated"
    /\ LET r == updateDependencies(bump.projectPackages, bump.updatedPackages,
                                   [deps |-> bump.flags.deps])
       IN bump' = [bump EXCEPT !.projectPackages = r.projectPackages,
                               !.updatedDependencies = r.updatedDependencies]
    /\ pc' = "reported"
    /\ UNCHANGED resolverVars

\* lines 268 to 270
Save ==
    /\ pc = "reported"
    /\ bump' = IF ~flagSet(bump.flags, "dryRun")
               THEN LET projectData == save(bump.projectData, bump.projectPackages)
                    IN [bump EXCEPT !.projectData = projectData,
                                    !.file = projectData,
                                    !.saves = @ + 1,
                                    !.writes = @ + 1]
               ELSE bump
    /\ pc' = "done"
    /\ UNCHANGED resolverVars

NextBump == LoadProjectData \/ GetUpdatedPackages \/ UpdateDependencies \/ Save

SpecBump == InitBump /\ [][NextBump]_vars

(***************************************************************************)
(* Calls on the packages of a project, in any order                        *)
(***************************************************************************)
MaxCalls == 3

ReleaseTypes == {"patch", "minor", "major", "custom"}

InitCalls ==
    \E edges \in SUBSET {<<2, 1>>}, edgeVersion \in EdgeVersions :
        /\ ResolverIdle
        /\ bump = [NoBump EXCEPT
                      !.file = BumpProject(edges, edgeVersion),
                      !.projectPackages = loadProjectData(BumpProject(edges, edgeVersion))]
        /\ pc = "calls"

\* pkg.increment(versionType, customVersion)
Increment ==
    /\ pc = "calls"
    /\ bump.calls < MaxCalls
    /\ \E i \in 1..Len(bump.projectPackages), versionType \in ReleaseTypes,
          customVersion \in CustomVersions \ {""} :
          bump' = [bump EXCEPT
                      !.projectPackages[i] = increment(@, versionType, customVersion),
                      !.call = [op |-> "increment", target |-> i,
                                versionType |-> versionType, version |-> customVersion],
                      !.calls = @ + 1]
    /\ UNCHANGED << resolverVars, pc >>

\* pkg.updateVersion(version)
UpdateVersion ==
    /\ pc = "calls"
    /\ bump.calls < MaxCalls
    /\ \E i \in 1..Len(bump.projectPackages), version \in {"1.0.1", "4.0.0"} :
          bump' = [bump EXCEPT
                      !.projectPackages[i] = updateVersion(@, version),
                      !.call = [op |-> "updateVersion", target |-> i,
                                versionType |-> "", version |-> version],
                      !.calls = @ + 1]
    /\ UNCHANGED << resolverVars, pc >>

\* pkg.updateDependency(parentPackage); a call that throws changes nothing
UpdateDependency ==
    /\ pc = "calls"
    /\ bump.calls < MaxCalls
    /\ \E i, k \in 1..Len(bump.projectPackages) :
          LET r == updateDependency(bump.projectPackages[i], bump.projectPackages[k])
          IN bump' = [bump EXCEPT
                         !.projectPackages[i] = r.pkg,
                         !.call = [op |-> "updateDependency", target |-> i,
                                   versionType |-> "",
                                   version |-> bump.projectPackages[k].newVersion],
                         !.calls = @ + 1]
    /\ UNCHANGED << resolverVars, pc >>

NextCalls == Increment \/ UpdateVersion \/ UpdateDependency

SpecCalls == InitCalls /\ [][NextCalls]_vars

(***************************************************************************)
(* C28.  A run of the command with the dryrun flag set does not call save  *)
(* and does not write sfdx-project.json; a run without the flag that       *)
(* reaches its end writes the file once.                                   *)
(***************************************************************************)
C28_DryRunWritesNothing ==
    pc = "done" =>
        /\ bump.flags.dryrun =>
              /\ bump.saves = 0
              /\ bump.writes = 0
              /\ bump.file = bump.projectData
        /\ ~bump.flags.dryrun =>
              /\ bump.saves = 1
              /\ bump.writes = 1

\* What the code does: the file is written in every run that reaches its end.
C28_AlwaysWritten ==
    pc = "done" =>
        /\ bump.saves = 1
        /\ bump.writes = 1
        /\ bump.file = save(bump.projectData, bump.projectPackages)

(***************************************************************************)
(* C29.  After updateDependencies, with the deps flag set every project    *)
(* package that had a dependency rewritten has a new version of its own:   *)
(* its patch number raised when the run did not update it before.  Without *)
(* the flag such a package has no new version unless the run updated it    *)
(* before.                                                                 *)
(***************************************************************************)
PatchOf(pkg) == inc(cleanedVersion(pkg.currentVersion), "patch") \o getSuffix(pkg)

C29_DependantsIncremented ==
    pc \in {"reported", "done"} =>
        \A j \in SeqSet(bump.updatedDependencies) :
            LET pkg == bump.projectPackages[j]
                before == j \in SeqSet(bump.updatedPackages)
            IN /\ \E k \in DOMAIN pkg.dependencies : isUpdated(pkg.dependencies[k])
               /\ bump.flags.deps => isUpdated(pkg)
               /\ bump.flags.deps /\ ~before => pkg.newVersion = PatchOf(pkg)
               /\ ~bump.flags.deps /\ ~before => ~isUpdated(pkg)

\* What the code does: only the dependency is rewritten, with or without
\* the flag.
C29_OnlyDependencyRewritten ==
    pc \in {"reported", "done"} =>
        \A j \in SeqSet(bump.updatedDependencies) :
            LET pkg == bump.projectPackages[j]
            IN /\ \E k \in DOMAIN pkg.dependencies : isUpdated(pkg.dependencies[k])
               /\ j \notin SeqSet(bump.updatedPackages) => ~isUpdated(pkg)

(***************************************************************************)
(* C30.  The newVersion of a package or of a dependency is assigned at     *)
(* most once: once it is set, no call of increment, updateVersion or       *)
(* updateDependency changes it.  A call of increment with type custom on a *)
(* package without a new version sets the custom version followed by the   *)
(* suffix of the current version (.NEXT, .LATEST or .0), and the second    *)
(* updateVersion the call makes leaves it.                                 *)
(***************************************************************************)
KeepsNewVersion(old, new) == isUpdated(old) => new.newVersion = old.newVersion

C30_Step ==
    \A i \in DOMAIN bump.projectPackages :
        LET old == bump.projectPackages[i]
            new == bump'.projectPackages[i]
        IN /\ KeepsNewVersion(old, new)
           /\ DOMAIN new.dependencies = DOMAIN old.dependencies
           /\ \A k \in DOMAIN old.dependencies :
                 KeepsNewVersion(old.dependencies[k], new.dependencies[k])
           /\ (/\ bump'.call.op = "increment"
               /\ bump'.call.versionType = "custom"
               /\ bump'.call.target = i
               /\ ~isUpdated(old))
                 => new.newVersion = bump'.call.version \o getSuffix(old)

C30_AssignedOnce == [][C30_Step]_vars

\* Package a got the custom version, was then called with updateVersion, and
\* an increment of another type was the last call: it still has the custom
\* version.
C30_Witness ==
    /\ pc = "calls"
    /\ bump.calls = 3
    /\ bump.call.op = "increment"
    /\ bump.call.versionType # "custom"
    /\ bump.call.target = 1
    /\ bump.projectPackages[1].newVersion = "3.0.0.NEXT"

====
